---- MODULE Spec2Model ----
(***************************************************************************)
(* Account-intelligence pipeline (activities.py, workflow_intelligence.py) *)
(*                                                                         *)
(* Eight state machines share this module:                                 *)
(*   Spec      the summaries document and one workflow at a time working   *)
(*             on it: append_summary_to_doc, read_summaries_doc,           *)
(*             synthesize_intelligence, write_intelligence_to_doc and the  *)
(*             orchestrator's retries.  The document is a sequence of      *)
(*             characters (one-character strings) with a parallel sequence *)
(*             of text styles; document indices are those of the document  *)
(*             store (index 1 is the first character of the body).         *)
(*   SpecDisc  fetch_all_call_ids: the window scan of the call platform.   *)
(*   SpecDiscShared the scan on platforms that hand a call over twice.     *)
(*   SpecWrite synthesize_intelligence and write_intelligence_to_doc on a  *)
(*             document as earlier runs and other editors left it.         *)
(*   SpecSum   fetch_and_summarize_call: the summarize tasks of one run.   *)
(*   SpecAppend one append_summary_to_doc task on a document that holds    *)
(*             blocks already.                                             *)
(*   SpecName  normalize_company_name and extract_company_from_email.      *)
(*   SpecRun   one whole run of AccountIntelligenceWorkflow.run from its   *)
(*             first step on an empty document, every activity under the   *)
(*             retry policy; FairSpecRun adds weak fairness of its steps.  *)
(***************************************************************************)
EXTENDS Integers, Sequences, FiniteSets, TLC

VARIABLES
    docText,              \* the document's characters (always ends with "\n")
    docStyle,             \* text style of every character of docText
    wfpc,                 \* position of AccountIntelligenceWorkflow.run
    run,                  \* number of workflow runs started so far
    call_ids,             \* run: result of step 1
    ap,                   \* run: state of each append_summary_to_doc task
    new_summaries_added,  \* run: count of appends that returned True
    summaries_text,       \* run: result of read_summaries_doc
    intelligence,         \* run: result of synthesize_intelligence
    wr,                   \* run: state of the write_intelligence_to_doc activity
    status,               \* what the last run returned
    attempt,              \* run: attempt number of the activity of steps 5 to 7
    faults,               \* number of failed activity attempts so far
    hist                  \* history: what the runs did to the document

docVars == <<docText, docStyle, wfpc, run, call_ids, ap, new_summaries_added,
             summaries_text, intelligence, wr, status, attempt, faults, hist>>

VARIABLES
    dpc,                        \* position of fetch_all_call_ids
    platform,                   \* the calls the platform holds, per window
    max_calls,                  \* argument of fetch_all_call_ids
    months_back,                \* loop variable of the window scan
    matching_calls,             \* matches accumulated so far
    consecutive_empty_windows,  \* rolling counter of zero-match windows
    window_calls,               \* calls collected from the pages of this window
    cursor,                     \* next page of this window (0: none)
    windows_scanned,            \* history: windows whose pages were requested
    window_matches_log,         \* history: matches of every scanned window
    dresult                     \* what fetch_all_call_ids returned

discVars == <<dpc, platform, max_calls, months_back, matching_calls,
              consecutive_empty_windows, window_calls, cursor, windows_scanned,
              window_matches_log, dresult>>

VARIABLES
    response,                   \* synthesize_intelligence: the completion API's answer
    summarize_tasks             \* step 3a: state of each fetch_and_summarize_call task

auxVars == <<response, summarize_tasks>>

VARIABLES
    npc,                        \* position of the caller of the name helpers
    email,                      \* the string handed to a name helper
    company                     \* what the helper returned

nameVars == <<npc, email, company>>

vars == <<docVars, discVars, auxVars, nameVars>>

----------------------------------------------------------------------------
(* Bounds of the model *)

MaxRuns == 2          \* workflow runs on the document
MaxIds == 2           \* length of the id list discovery hands to a run
MaxFaults == 1        \* failed activity attempts over all runs
MaxBusyWindows == 4   \* windows of the platform that hold calls
MaxOtherInserts == 1  \* inserts of another writer during one write
MaxPieces == 2        \* pieces of text in the document a write starts on

----------------------------------------------------------------------------
(* Text: Python str as a sequence of one-character strings *)

Rep(c, n) == [i \in 1..n |-> c]

RECURSIVE Flatten(_)
Flatten(ss) == IF ss = <<>> THEN <<>> ELSE Head(ss) \o Flatten(Tail(ss))

\* pat occurs in t at index i
OccursAt(pat, t, i) == \A j \in 1..Len(pat) : t[i + j - 1] = pat[j]

\* the indices at which pat occurs in t
Occ(pat, t) == {i \in 1..(Len(t) - Len(pat) + 1) : OccursAt(pat, t, i)}

\* Python: pat in t
Contains(pat, t) == \E i \in 1..(Len(t) - Len(pat) + 1) : OccursAt(pat, t, i)

\* Python: t.startswith(pat)
StartsWith(t, pat) == Len(t) >= Len(pat) /\ \A j \in 1..Len(pat) : t[j] = pat[j]

\* Python: t.count(pat) for a pattern that cannot overlap itself
Count(pat, t) == Cardinality(Occ(pat, t))

Min(S) == CHOOSE x \in S : \A y \in S : x <= y
Max(S) == CHOOSE x \in S : \A y \in S : x >= y

NL == <<"\n">>

----------------------------------------------------------------------------
(* fetch_and_summarize_call: the formatted summary block of a call *)

S_HeaderOpen == <<"=","=","="," ","C","A","L","L"," ","S","U","M","M","A","R","Y",":"," ">>
S_HeaderPrefix == <<"=","=","="," ","C","A","L","L"," ","S","U","M","M","A","R","Y",":">>
S_Sep == <<" ","-"," ">>
S_HeaderClose == <<" ","=","=","=">>
S_Trailer == <<"=","=","=">>
S_CallId == <<"C","a","l","l"," ","I","D",":"," ">>
S_Participants == <<"P","a","r","t","i","c","i","p","a","n","t","s",":"," ">>
S_NoExternal == <<"N","o"," ","e","x","t","e","r","n","a","l"," ","p","a","r","t","i","c","i","p","a","n","t","s">>
S_Duration == <<"D","u","r","a","t","i","o","n",":"," ">>
S_Minutes == <<" ","m","i","n","u","t","e","s">>

\* The calls of the platform that the runs work on: id, call_date_str
\* (YYYY-MM-DD), title and the summary text the completion API returns.
\* Call "1" is dated 2024-03-10, call "2" 2024-01-05; the summary of call
\* "2" carries markdown bold and a markdown bullet line.
Calls ==
    [id \in {<<"1">>, <<"2">>} |->
        IF id = <<"1">>
        THEN [call_date_str |-> <<"2","0","2","4","-","0","3","-","1","0">>,
              title |-> <<"T">>,
              summary |-> <<"s">>]
        ELSE [call_date_str |-> <<"2","0","2","4","-","0","1","-","0","5">>,
              title |-> <<"U">>,
              summary |-> <<"*","*","a","*","*","\n","-"," ","b">>]]

CallIdSet == DOMAIN Calls

\* formatted_summary of fetch_and_summarize_call (no external participant,
\* duration 0)
FormatBlock(call_id, metadata) ==
    Flatten(<<S_HeaderOpen, metadata.call_date_str, S_Sep, metadata.title,
              S_HeaderClose, NL,
              S_CallId, call_id, NL,
              S_Participants, S_NoExternal, NL,
              S_Duration, <<"0">>, S_Minutes, NL,
              NL,
              metadata.summary, NL,
              NL,
              S_Trailer, NL>>)

FormatSummary(id) == FormatBlock(id, Calls[id])

formatted_summary == [id \in CallIdSet |-> FormatSummary(id)]

\* the key without the id, and the whole block in place of the key
KeyWithoutId(id) == S_CallId

WholeBlock(id) == formatted_summary[id]

\* the idempotency key append_summary_to_doc searches for
CallIdLiteral(id) == S_CallId \o id

----------------------------------------------------------------------------
(* The document store: get and batchUpdate *)

\* documents().get: a paragraph starts at index 1 and after every newline;
\* startIndex of the paragraph holding index i
ParaStartOf(t, i) ==
    CHOOSE p \in 1..i : /\ (p = 1 \/ t[p - 1] = "\n")
                        /\ \A k \in (p + 1)..i : t[k - 1] # "\n"

\* endIndex (exclusive) of the paragraph holding index i
ParaEndOf(t, i) ==
    (CHOOSE e \in i..Len(t) : t[e] = "\n" /\ \A k \in i..(e - 1) : t[k] # "\n") + 1

\* a text run starts where a paragraph starts or the style changes
RunStartsAt(t, st, i) == i = 1 \/ t[i - 1] = "\n" \/ st[i - 1] # st[i]

\* start of the run that holds index i
RunStartOf(t, st, i) ==
    CHOOSE p \in 1..i : /\ RunStartsAt(t, st, p)
                        /\ \A k \in (p + 1)..i : ~RunStartsAt(t, st, k)

\* a run ends with its paragraph or where the style changes
RunBreak(t, st, e) == t[e] = "\n" \/ e = Len(t) \/ st[e + 1] # st[e]

\* end (exclusive) of the run that holds index i
RunEndOf(t, st, i) ==
    (CHOOSE e \in i..Len(t) : /\ RunBreak(t, st, e)
                              /\ \A k \in i..(e - 1) : ~RunBreak(t, st, k)) + 1

\* insertText: the inserted text is plain
InsertText(t, index, s) == SubSeq(t, 1, index - 1) \o s \o SubSeq(t, index, Len(t))
InsertStyle(st, index, s) ==
    SubSeq(st, 1, index - 1) \o [i \in 1..Len(s) |-> "plain"] \o SubSeq(st, index, Len(st))

\* deleteContentRange [startIndex, endIndex); the store refuses an empty range,
\* a range outside the body and one that takes the final newline
DeleteOk(t, startIndex, endIndex) ==
    1 <= startIndex /\ startIndex < endIndex /\ endIndex <= Len(t)
DeleteRange(t, startIndex, endIndex) ==
    SubSeq(t, 1, startIndex - 1) \o SubSeq(t, endIndex, Len(t))

----------------------------------------------------------------------------
(* write_intelligence_to_doc, step 2: the text of the Intelligence Section *)

start_marker == <<"A","C","C","O","U","N","T"," ","I","N","T","E","L","L","I","G","E","N","C","E">>
end_marker == <<"E","N","D"," ","A","C","C","O","U","N","T"," ","I","N","T","E","L","L","I","G","E","N","C","E">>
S_Account == <<"A","c","c","o","u","n","t",":">>
S_LastUpdated == <<"L","a","s","t"," ","U","p","d","a","t","e","d",":">>
S_TotalCalls == <<"T","o","t","a","l"," ","C","a","l","l","s",":">>
S_QuickContext == <<"Q","U","I","C","K"," ","C","O","N","T","E","X","T">>
S_BlockingProgress == <<"B","L","O","C","K","I","N","G"," ","P","R","O","G","R","E","S","S">>
S_NextActions == <<"N","E","X","T"," ","A","C","T","I","O","N","S">>
S_Risks == <<"R","I","S","K","S">>
S_CallHistory == <<"C","A","L","L"," ","H","I","S","T","O","R","Y"," ","(","n","e","w","e","s","t"," ","f","i","r","s","t",")">>
S_NoneIdentified == <<"N","o","n","e"," ","i","d","e","n","t","i","f","i","e","d">>
S_Colon == <<":"," ">>

SeparatorWidth == 60
DividerWidth == 60

separator_line == Rep("=", SeparatorWidth) \o NL
divider == Rep("-", DividerWidth) \o NL \o NL

\* The briefs the completion API may return to synthesize_intelligence
\* (every key present): "A" has empty lists, "B" one quick_context item and
\* one call_history entry.
Briefs ==
    [b \in {"A", "B"} |->
        [account |-> <<"X">>,
         last_updated |-> <<"D">>,
         total_calls |-> IF b = "A" THEN <<"1">> ELSE <<"2">>,
         quick_context |-> IF b = "A" THEN <<>> ELSE << <<"q">> >>,
         blocking_progress |-> <<>>,
         next_actions |-> <<>>,
         risks |-> IF b = "A" THEN <<>> ELSE << S_NoneIdentified >>,
         call_history |-> IF b = "A" THEN <<>>
                          ELSE << [date |-> <<"d">>, type |-> <<"t">>,
                                   one_sentence |-> <<"o">>] >>]]

BriefNames == DOMAIN Briefs

\* one entry of content_parts with the entry of formatting_ranges that starts
\* with it: n leading characters take style
Part(text, style, n) == [text |-> text, style |-> style, n |-> n]
Plain(text) == Part(text, "plain", 0)

BulletLines(items) == [i \in 1..Len(items) |-> Plain(items[i] \o NL)]

\* blocking_progress and risks: "None identified" for an empty list and for
\* a single item that contains it
NoneOrLines(items) ==
    IF items = <<>> \/ (Len(items) = 1 /\ Contains(S_NoneIdentified, items[1]))
    THEN <<Plain(S_NoneIdentified \o NL)>>
    ELSE BulletLines(items)

HistoryLines(entries) ==
    [i \in 1..Len(entries) |->
        Plain(entries[i].date \o S_Sep \o entries[i].type \o S_Colon
              \o entries[i].one_sentence \o NL)]

ContentParts(intel) ==
       <<Plain(separator_line),
         Part(start_marker \o NL, "title", Len(start_marker)),
         Plain(separator_line),
         Part(S_Account \o <<" ">> \o intel.account \o NL, "bold", Len(S_Account)),
         Part(S_LastUpdated \o <<" ">> \o intel.last_updated \o NL, "bold",
              Len(S_LastUpdated)),
         Part(S_TotalCalls \o <<" ">> \o intel.total_calls \o NL, "bold",
              Len(S_TotalCalls)),
         Plain(NL),
         Plain(divider),
         Part(S_QuickContext \o NL \o NL, "section_header", Len(S_QuickContext))>>
    \o BulletLines(intel.quick_context)
    \o <<Plain(NL),
         Part(S_BlockingProgress \o NL \o NL, "section_header", Len(S_BlockingProgress))>>
    \o NoneOrLines(intel.blocking_progress)
    \o <<Plain(NL),
         Part(S_NextActions \o NL \o NL, "section_header", Len(S_NextActions))>>
    \o BulletLines(intel.next_actions)
    \o <<Plain(NL),
         Part(S_Risks \o NL \o NL, "section_header", Len(S_Risks))>>
    \o NoneOrLines(intel.risks)
    \o <<Plain(NL),
         Plain(divider),
         Part(S_CallHistory \o NL \o NL, "section_header", Len(S_CallHistory))>>
    \o HistoryLines(intel.call_history)
    \o <<Plain(NL),
         Plain(separator_line),
         Plain(end_marker \o NL),
         Plain(separator_line),
         Plain(NL \o NL)>>

content_parts == [b \in BriefNames |-> ContentParts(Briefs[b])]

\* "".join(content_parts) for every brief
full_text ==
    [b \in BriefNames |->
        Flatten([i \in 1..Len(content_parts[b]) |-> content_parts[b][i].text])]

\* formatting_ranges as the styles of the characters of full_text: step 5
\* sets them on [insert_index + start_offset, insert_index + end_offset)
TextStyleOf(style) ==
    CASE style = "title" -> "bold16"
      [] style = "section_header" -> "bold12"
      [] style = "bold" -> "bold"
      [] OTHER -> "plain"

formatting_styles ==
    [b \in BriefNames |->
        Flatten([i \in 1..Len(content_parts[b]) |->
            [j \in 1..Len(content_parts[b][i].text) |->
                IF j <= content_parts[b][i].n
                THEN TextStyleOf(content_parts[b][i].style) ELSE "keep"]])]

\* updateTextStyle with fields "bold" keeps the font size of the range;
\* with fields "bold,fontSize" it sets both
UpdateTextStyle(old, new) ==
    CASE new = "keep" -> old
      [] new = "bold" -> IF old = "plain" THEN "bold" ELSE old
      [] OTHER -> new

----------------------------------------------------------------------------
(* write_intelligence_to_doc: the scan for the markers of an old section *)

\* the occurrences of marker that lie inside one text run ("marker in text"
\* is asked of every run on its own)
MarkerInRun(t, st, marker) ==
    {p \in Occ(marker, t) : \A k \in p..(p + Len(marker) - 2) : ~RunBreak(t, st, k)}

\* The loop over paragraphs and text runs: the first run that contains
\* start_marker sets intelligence_start_index to the startIndex of its
\* paragraph; every later run that contains end_marker sets
\* intelligence_end_index to the endIndex of its paragraph (the break leaves
\* the inner loop only).  0 stands for None.
MarkerScan(t, st) ==
    LET starts == MarkerInRun(t, st, start_marker)
        first == Min(starts)
        ends == IF starts = {} THEN {}
                ELSE LET later == RunEndOf(t, st, first)
                     IN  {q \in MarkerInRun(t, st, end_marker) : q >= later}
    IN  [intelligence_start_index |->
             IF starts = {} THEN 0 ELSE ParaStartOf(t, first),
         intelligence_end_index |->
             IF ends = {} THEN 0 ELSE ParaEndOf(t, Max(ends))]

old_intelligence_exists(scan) ==
    scan.intelligence_start_index # 0 /\ scan.intelligence_end_index # 0

----------------------------------------------------------------------------
(* write_intelligence_to_doc, step 8: markdown in the whole document *)

\* re.finditer(r'\*\*(.+?)\*\*', text): the matches from position from on,
\* each <<first, last + 1>> in positions of text ("." takes no newline)
BoldCloses(tx, i) ==
    {j \in (i + 3)..(Len(tx) - 1) :
        /\ tx[j] = "*" /\ tx[j + 1] = "*"
        /\ \A k \in (i + 2)..(j - 1) : tx[k] # "\n"}

RECURSIVE BoldMatches(_, _)
BoldMatches(tx, from) ==
    LET opens == {i \in from..(Len(tx) - 4) :
                     tx[i] = "*" /\ tx[i + 1] = "*" /\ BoldCloses(tx, i) # {}}
    IN  IF opens = {} THEN {}
        ELSE LET i == Min(opens)
                 j == Min(BoldCloses(tx, i))
             IN  {<<i, j + 2>>} \cup BoldMatches(tx, j + 2)

IsSpace(c) == c \in {" ", "\n", "\t"}

\* len(text.rstrip())
RStripLen(tx) ==
    IF \A k \in 1..Len(tx) : IsSpace(tx[k]) THEN 0
    ELSE Max({k \in 1..Len(tx) : ~IsSpace(tx[k])})

S_BulletMarker == <<"-", " ">>

\* The requests step 8 collects from a document: for every text run (its
\* start_idx is the sum of the lengths of the runs before it plus 1, which is
\* its index) the bold ranges and the ranges to delete.
MarkdownScan(t, st) ==
    LET Text(rs) == SubSeq(t, rs, RunEndOf(t, st, rs) - 1)
        starred == {RunStartOf(t, st, i) : i \in {k \in 1..Len(t) : t[k] = "*"}}
        matches == UNION {{<<rs + m[1] - 1, rs + m[2] - 1>> : m \in BoldMatches(Text(rs), 1)} :
                             rs \in starred}
        headers == {rs \in 1..Len(t) : /\ t[rs] = "="
                                        /\ RunStartsAt(t, st, rs)
                                        /\ StartsWith(Text(rs), S_HeaderPrefix)}
        bullets == {rs \in 1..Len(t) : /\ t[rs] = "-"
                                        /\ RunStartsAt(t, st, rs)
                                        /\ StartsWith(Text(rs), S_BulletMarker)}
    IN  [bold_requests |->
             {<<m[1] + 2, m[2] - 2>> : m \in matches}
             \cup {<<rs, rs + RStripLen(Text(rs))>> : rs \in headers},
         delete_requests |->
             {<<m[2] - 2, m[2]>> : m \in matches}
             \cup {<<m[1], m[1] + 2>> : m \in matches}
             \cup {<<rs, rs + 2>> : rs \in bullets}]

\* updateTextStyle bold on every range of bold_requests
ApplyBold(st, ranges) ==
    [i \in 1..Len(st) |->
        IF \E r \in ranges : r[1] <= i /\ i < r[2]
        THEN UpdateTextStyle(st[i], "bold") ELSE st[i]]

\* delete_requests.sort(key=start, reverse=True)
RECURSIVE SortedByStartDesc(_)
SortedByStartDesc(ranges) ==
    IF ranges = {} THEN <<>>
    ELSE LET r == CHOOSE x \in ranges : \A y \in ranges : x[1] >= y[1]
         IN  <<r>> \o SortedByStartDesc(ranges \ {r})

\* one batchUpdate of deleteContentRange requests, applied one after the other;
\* the batch is refused as a whole when one of its ranges is
BatchDeleteOk(t, ops) ==
    \A n \in 1..Len(ops) : 1 <= ops[n][1] /\ ops[n][1] < ops[n][2] /\ ops[n][2] <= Len(t)

RECURSIVE BatchDelete(_, _)
BatchDelete(seq, ops) ==
    IF ops = <<>> THEN seq
    ELSE BatchDelete(DeleteRange(seq, Head(ops)[1], Head(ops)[2]), Tail(ops))

----------------------------------------------------------------------------
(* read_summaries_doc: parse the summary blocks and sort them by date *)

IsDigit(c) == c \in {"0", "1", "2", "3", "4", "5", "6", "7", "8", "9"}

\* \d{4}-\d{2}-\d{2} at index i of t
DateAt(t, i) ==
    /\ i + 9 <= Len(t)
    /\ \A k \in {0, 1, 2, 3, 5, 6, 8, 9} : IsDigit(t[i + k])
    /\ t[i + 4] = "-" /\ t[i + 7] = "-"

TrailerAt(t, i) == i + 2 <= Len(t) /\ t[i] = "=" /\ t[i + 1] = "=" /\ t[i + 2] = "="

\* the first index from i on at which "===" starts (0: none)
NextTrailer(t, i) ==
    IF \E e \in i..Len(t) : TrailerAt(t, e)
    THEN CHOOSE e \in i..Len(t) : TrailerAt(t, e) /\ \A k \in i..(e - 1) : ~TrailerAt(t, k)
    ELSE 0

\* summary_pattern =
\*   (=== CALL SUMMARY: (\d{4}-\d{2}-\d{2}) - .+?===.*?===)   with re.DOTALL
\* matched at index i: the index after the match, 0 when it does not match
SummaryMatchEnd(t, i) ==
    LET d == i + Len(S_HeaderOpen)
        b == d + 10 + Len(S_Sep)
    IN  IF /\ \A j \in 1..Len(S_HeaderOpen) : i + j - 1 <= Len(t) /\ t[i + j - 1] = S_HeaderOpen[j]
           /\ DateAt(t, d)
           /\ \A j \in 1..Len(S_Sep) : d + 9 + j <= Len(t) /\ t[d + 9 + j] = S_Sep[j]
        THEN LET m == NextTrailer(t, b + 1)
             IN  IF m = 0 THEN 0
                 ELSE LET q == NextTrailer(t, m + 3)
                      IN  IF q = 0 THEN 0 ELSE q + 3
        ELSE 0

\* re.finditer(summary_pattern, full_text): (date_str, summary_text) of every
\* match from index from on, in document order
RECURSIVE SummaryMatches(_, _)
SummaryMatches(t, from) ==
    LET starts == {i \in Occ(S_HeaderOpen, t) : i >= from /\ SummaryMatchEnd(t, i) # 0}
    IN  IF starts = {} THEN <<>>
        ELSE LET i == Min(starts)
                 e == SummaryMatchEnd(t, i)
             IN  << <<SubSeq(t, i + Len(S_HeaderOpen), i + Len(S_HeaderOpen) + 9),
                      SubSeq(t, i, e - 1)>> >>
                 \o SummaryMatches(t, e)

\* code points of the characters of a date
CharCode(c) ==
    CASE c = "-" -> 45 [] c = "0" -> 48 [] c = "1" -> 49 [] c = "2" -> 50
      [] c = "3" -> 51 [] c = "4" -> 52 [] c = "5" -> 53 [] c = "6" -> 54
      [] c = "7" -> 55 [] c = "8" -> 56 [] c = "9" -> 57

\* Python: a <= b for two strings of digits and dashes
RECURSIVE StrLeq(_, _)
StrLeq(a, b) ==
    IF a = <<>> THEN TRUE
    ELSE IF b = <<>> THEN FALSE
    ELSE IF Head(a) = Head(b) THEN StrLeq(Tail(a), Tail(b))
    ELSE CharCode(Head(a)) < CharCode(Head(b))

\* summaries.sort(key=lambda x: x[0]): a stable sort, ascending
RECURSIVE InsertByDate(_, _)
InsertByDate(sorted, x) ==
    IF sorted = <<>> THEN <<x>>
    ELSE IF StrLeq(Head(sorted)[1], x[1]) THEN <<Head(sorted)>> \o InsertByDate(Tail(sorted), x)
    ELSE <<x>> \o sorted

\* the matches left in document order
DocumentOrder(summaries) == summaries

RECURSIVE SortByDate(_)
SortByDate(summaries) ==
    IF summaries = <<>> THEN <<>>
    ELSE InsertByDate(SortByDate(SubSeq(summaries, 1, Len(summaries) - 1)),
                      summaries[Len(summaries)])

\* "\n".join(parts)
RECURSIVE JoinLines(_)
JoinLines(parts) ==
    IF parts = <<>> THEN <<>>
    ELSE IF Len(parts) = 1 THEN parts[1]
    ELSE parts[1] \o NL \o JoinLines(Tail(parts))

sorted_summaries(t) == SortByDate(SummaryMatches(t, 1))

read_summaries_doc(t) ==
    LET summaries == sorted_summaries(t)
    IN  IF summaries # <<>>
        THEN JoinLines([i \in 1..Len(summaries) |-> summaries[i][2]])
        ELSE t

----------------------------------------------------------------------------
(* The workflow on the document: AccountIntelligenceWorkflow.run *)

\* RetryPolicy(maximum_attempts=3)
maximum_attempts == 3

insert_index == 1

\* The id lists step 1 may hand to a run (fetch_all_call_ids is SpecDisc):
\* at most n ids, newest call first, an id possibly more than once.
RECURSIVE IdLists(_)
IdLists(n) ==
    IF n = 0 THEN {<<>>}
    ELSE LET NewestFirst(l, id) ==
                 l = <<>> \/ StrLeq(Calls[id].call_date_str, Calls[l[Len(l)]].call_date_str)
         IN  IdLists(n - 1) \cup
             {Append(l, id) : <<l, id>> \in
                 {p \in IdLists(n - 1) \X CallIdSet :
                     Len(p[1]) = n - 1 /\ NewestFirst(p[1], p[2])}}

NoWrite == [pc |-> "idle", intelligence_start_index |-> 0, intelligence_end_index |-> 0,
            delete_requests |-> {}]

NoResponse == [prefix |-> <<>>, json |-> "none", suffix |-> <<>>]

NoHist == [written |-> {}, mutations |-> 0, steps |-> {}, present_at_start |-> FALSE,
           len_before |-> 0, old_len |-> 0, markup |-> FALSE,
           deleted |-> <<>>, other_inserts |-> 0, parse_failures |-> 0,
           invocations |-> 0, first_text |-> <<>>, located |-> <<>>]

DocInit ==
    /\ docText = NL
    /\ docStyle = <<"plain">>
    /\ wfpc = "start"
    /\ run = 0
    /\ call_ids = <<>>
    /\ ap = <<>>
    /\ new_summaries_added = 0
    /\ summaries_text = <<>>
    /\ intelligence = "A"
    /\ wr = NoWrite
    /\ status = "none"
    /\ attempt = 1
    /\ faults = 0
    /\ hist = NoHist

\* Steps 1 to 3a: discovery returns ids; with no id the run returns at once;
\* otherwise the document is looked up, every call is summarized and one
\* append task per entry of call_ids is dispatched.
WorkflowStart(ids) ==
    /\ wfpc \in {"start", "returned", "failed"}
    /\ run < MaxRuns
    /\ run' = run + 1
    /\ call_ids' = ids
    /\ new_summaries_added' = 0
    /\ summaries_text' = <<>>
    /\ wr' = NoWrite
    /\ attempt' = 1
    /\ hist' = [hist EXCEPT !.mutations = 0, !.steps = {},
                            !.present_at_start =
                                \A n \in 1..Len(ids) :
                                    Contains(S_CallId \o ids[n] \o NL, docText),
                            !.len_before = 0, !.old_len = 0, !.markup = FALSE]
    /\ IF ids = <<>>
       THEN /\ wfpc' = "returned"
            /\ status' = "No calls found"
            /\ ap' = <<>>
       ELSE /\ wfpc' = "append"
            /\ status' = "none"
            /\ ap' = [n \in 1..Len(ids) |-> [pc |-> "read", result |-> FALSE, attempt |-> 1]]
    /\ UNCHANGED <<docText, docStyle, intelligence, faults>>

\* append_summary_to_doc, lines 729-746: read the document and look for the key
AppendRead(n) ==
    /\ wfpc = "append"
    /\ n \in 1..Len(ap)
    /\ ap[n].pc = "read"
    /\ ap' = [ap EXCEPT ![n].pc =
                 IF Contains(CallIdLiteral(call_ids[n]), docText) THEN "done" ELSE "insert"]
    /\ UNCHANGED <<docText, docStyle, wfpc, run, call_ids, new_summaries_added,
                   summaries_text, intelligence, wr, status, attempt, faults, hist>>

\* the text append_summary_to_doc inserts
text_with_newline(id) == formatted_summary[id] \o NL

\* an insert that puts the block at the end of the body
AppendEffectAtEnd(n) ==
    /\ docText' = InsertText(docText, Len(docText), text_with_newline(call_ids[n]))
    /\ docStyle' = InsertStyle(docStyle, Len(docText), text_with_newline(call_ids[n]))
    /\ hist' = [hist EXCEPT !.written = @ \cup {call_ids[n]}, !.mutations = @ + 1]

AppendEffect(n) ==
    /\ docText' = InsertText(docText, insert_index, text_with_newline(call_ids[n]))
    /\ docStyle' = InsertStyle(docStyle, insert_index, text_with_newline(call_ids[n]))
    /\ hist' = [hist EXCEPT !.written = @ \cup {call_ids[n]}, !.mutations = @ + 1]

\* append_summary_to_doc, lines 748-764: insert at index 1 and return True
AppendInsert(n) ==
    /\ wfpc = "append"
    /\ n \in 1..Len(ap)
    /\ ap[n].pc = "insert"
    /\ AppendEffect(n)
    /\ ap' = [ap EXCEPT ![n].pc = "done", ![n].result = TRUE]
    /\ UNCHANGED <<wfpc, run, call_ids, new_summaries_added, summaries_text,
                   intelligence, wr, status, attempt, faults>>

\* the orchestrator on a failed attempt of append task n: another attempt,
\* or the failure of the run after maximum_attempts
AppendRetry(n) ==
    /\ faults < MaxFaults
    /\ faults' = faults + 1
    /\ IF ap[n].attempt < maximum_attempts
       THEN /\ ap' = [ap EXCEPT ![n].pc = "read", ![n].attempt = @ + 1]
            /\ UNCHANGED <<wfpc, status>>
       ELSE /\ ap' = [ap EXCEPT ![n].pc = "failed"]
            /\ wfpc' = "failed"
            /\ status' = "failed"

\* an attempt of append task n fails on a request to the document store
AppendFault(n) ==
    /\ wfpc = "append"
    /\ n \in 1..Len(ap)
    /\ ap[n].pc \in {"read", "insert"}
    /\ AppendRetry(n)
    /\ UNCHANGED <<docText, docStyle, run, call_ids, new_summaries_added,
                   summaries_text, intelligence, wr, attempt, hist>>

\* the insert of an attempt takes effect but the attempt times out before it
\* returns
AppendTimeout(n) ==
    /\ wfpc = "append"
    /\ n \in 1..Len(ap)
    /\ ap[n].pc = "insert"
    /\ AppendEffect(n)
    /\ AppendRetry(n)
    /\ UNCHANGED <<run, call_ids, new_summaries_added, summaries_text,
                   intelligence, wr, attempt>>

\* asyncio.gather(*append_tasks), lines 112-126: count the appends that
\* returned True; with none the run returns "No Updates Needed"
AppendJoin ==
    /\ wfpc = "append"
    /\ \A n \in 1..Len(ap) : ap[n].pc = "done"
    /\ LET added == Cardinality({n \in 1..Len(ap) : ap[n].result})
       IN  /\ new_summaries_added' = added
           /\ IF added = 0
              THEN wfpc' = "returned" /\ status' = "No Updates Needed"
              ELSE wfpc' = "read" /\ status' = "none"
    /\ attempt' = 1
    /\ UNCHANGED <<docText, docStyle, run, call_ids, ap, summaries_text,
                   intelligence, wr, faults, hist>>

\* step 4a: read_summaries_doc
ReadSummariesDoc ==
    /\ wfpc = "read"
    /\ summaries_text' = read_summaries_doc(docText)
    /\ wfpc' = "synth"
    /\ attempt' = 1
    /\ hist' = [hist EXCEPT !.steps = @ \cup {"read"}]
    /\ UNCHANGED <<docText, docStyle, run, call_ids, ap, new_summaries_added,
                   intelligence, wr, status, faults>>

\* step 4b: synthesize_intelligence returns the brief the completion API wrote
SynthesizeIntelligence(b) ==
    /\ wfpc = "synth"
    /\ intelligence' = b
    /\ wfpc' = "write"
    /\ attempt' = 1
    /\ wr' = [NoWrite EXCEPT !.pc = "read"]
    /\ hist' = [hist EXCEPT !.steps = @ \cup {"synth"}]
    /\ UNCHANGED <<docText, docStyle, run, call_ids, ap, new_summaries_added,
                   summaries_text, status, faults>>

----------------------------------------------------------------------------
(* synthesize_intelligence: the completion response and its parse *)

\* BQ stands for the backquote character, which a string cannot hold here
BQ == "BQ"
S_Fence == <<BQ, BQ, BQ>>
S_FenceOpen == <<BQ, BQ, BQ, "j","s","o","n","\n">>
S_FenceClose == <<"\n", BQ, BQ, BQ>>
S_ProseBefore == <<"H","e","r","e",":","\n">>
S_ProseAfter == <<"\n","D","o","n","e",".">>

\* the JSON object text of a brief ("B" has a nested object, its call_history
\* entry); "truncated" is an object cut off before its closing brace
JsonText(j) ==
    CASE j = "A" -> <<"{","A","}">>
      [] j = "B" -> <<"{","B","[","{","}","]","}">>
      [] OTHER -> <<"{","A">>

Responses ==
    [prefix : {<<>>, S_FenceOpen, S_ProseBefore},
     json : BriefNames \cup {"truncated"},
     suffix : {<<>>, S_FenceClose, S_ProseAfter}]

\* response.content[0].text
ResponseContent(r) == r.prefix \o JsonText(r.json) \o r.suffix

IsStripped(c) == c \in {" ", "\n", "\t", "\r"}

\* Python: t.strip()
RECURSIVE PyStrip(_)
PyStrip(t) ==
    IF t = <<>> THEN t
    ELSE IF IsStripped(t[1]) THEN PyStrip(Tail(t))
    ELSE IF IsStripped(t[Len(t)]) THEN PyStrip(SubSeq(t, 1, Len(t) - 1))
    ELSE t

\* Python: t.find(c) and t.rfind(c), 0-based, -1 when c is not in t
PyFind(t, c) ==
    LET at == {i \in 1..Len(t) : t[i] = c}
    IN  IF at = {} THEN -1 ELSE Min(at) - 1
PyRFind(t, c) ==
    LET at == {i \in 1..Len(t) : t[i] = c}
    IN  IF at = {} THEN -1 ELSE Max(at) - 1

\* Python: t[a:b] for b >= 0 (a negative a counts from the end)
PySlice(t, a, b) ==
    LET from == IF a < 0 THEN (IF Len(t) + a < 0 THEN 0 ELSE Len(t) + a) ELSE a
        to == IF b > Len(t) THEN Len(t) ELSE b
    IN  IF from < to THEN SubSeq(t, from + 1, to) ELSE <<>>

\* json.loads: the brief whose object text this is, or JSONDecodeError
json_loads(t) ==
    IF \E b \in BriefNames : t = JsonText(b)
    THEN CHOOSE b \in BriefNames : t = JsonText(b)
    ELSE "JSONDecodeError"

\* lines 935-946: strip the text; only a text that starts with a fence is
\* cut to first "{" .. last "}"; then json.loads
ParseResponse(content) ==
    LET response_text == PyStrip(content)
        start_idx == PyFind(response_text, "{")
        end_idx == PyRFind(response_text, "}") + 1
    IN  IF StartsWith(response_text, S_Fence)
        THEN json_loads(PySlice(response_text, start_idx, end_idx))
        ELSE json_loads(response_text)

\* lines 929-935: the completion API answers the synthesis prompt
SynthesizeCompletion(r) ==
    /\ wfpc = "synth"
    /\ response = NoResponse
    /\ response' = r
    /\ UNCHANGED <<docVars, summarize_tasks>>

\* a parse that falls back to an empty brief instead of raising
SynthesizeParseFallback ==
    /\ wfpc = "synth"
    /\ response # NoResponse
    /\ response' = NoResponse
    /\ LET parsed == ParseResponse(ResponseContent(response))
       IN  IF parsed # "JSONDecodeError"
           THEN /\ intelligence' = parsed
                /\ hist' = [hist EXCEPT !.steps = @ \cup {"synth"},
                                        !.invocations = 1]
           ELSE /\ intelligence' = "A"
                /\ hist' = [hist EXCEPT !.parse_failures = @ + 1,
                                        !.invocations = 1]
    /\ wfpc' = "write"
    /\ attempt' = 1
    /\ wr' = [NoWrite EXCEPT !.pc = "read"]
    /\ UNCHANGED <<docText, docStyle, run, call_ids, ap, new_summaries_added,
                   summaries_text, status, faults, summarize_tasks>>

\* lines 935-950: parse the answer; a brief is returned, or the attempt
\* raises and the orchestrator retries it (maximum_attempts)
SynthesizeParse ==
    /\ wfpc = "synth"
    /\ response # NoResponse
    /\ response' = NoResponse
    /\ LET parsed == ParseResponse(ResponseContent(response))
       IN  IF parsed # "JSONDecodeError"
           THEN /\ intelligence' = parsed
                /\ wfpc' = "write"
                /\ attempt' = 1
                /\ wr' = [NoWrite EXCEPT !.pc = "read"]
                /\ hist' = [hist EXCEPT !.steps = @ \cup {"synth"},
                                        !.invocations = 1]
                /\ UNCHANGED status
           ELSE /\ hist' = [hist EXCEPT !.parse_failures = @ + 1]
                /\ IF attempt < maximum_attempts
                   THEN attempt' = attempt + 1 /\ UNCHANGED <<wfpc, status>>
                   ELSE wfpc' = "failed" /\ status' = "failed" /\ UNCHANGED attempt
                /\ UNCHANGED <<intelligence, wr>>
    /\ UNCHANGED <<docText, docStyle, run, call_ids, ap, new_summaries_added,
                   summaries_text, faults, summarize_tasks>>

----------------------------------------------------------------------------
(* Step 5 of the run: write_intelligence_to_doc, one action per request *)

new_text == full_text[intelligence]

\* what the document held when the attempt read it: its length, the length
\* of the section text it holds as it was inserted (0: none) and whether it
\* holds markdown that step 8 would delete
SectionLenIn(t) ==
    LET held == {b \in BriefNames : Contains(full_text[b], t)}
    IN  IF held = {} THEN 0 ELSE Len(full_text[CHOOSE b \in held : TRUE])

\* lines 984-1015: read the document and scan it for the markers
WriteRead ==
    /\ wfpc = "write"
    /\ wr.pc = "read"
    /\ LET scan == MarkerScan(docText, docStyle)
       IN  wr' = [wr EXCEPT !.pc = "insert",
                            !.intelligence_start_index = scan.intelligence_start_index,
                            !.intelligence_end_index = scan.intelligence_end_index]
    /\ hist' = [hist EXCEPT !.steps = @ \cup {"write"},
                            !.len_before = Len(docText),
                            !.old_len = SectionLenIn(docText),
                            !.markup = MarkdownScan(docText, docStyle).delete_requests # {},
                            !.located =
                                LET scan == MarkerScan(docText, docStyle)
                                IN  SubSeq(docText, scan.intelligence_start_index,
                                           scan.intelligence_end_index - 1)]
    /\ UNCHANGED <<docText, docStyle, wfpc, run, call_ids, ap, new_summaries_added,
                   summaries_text, intelligence, status, attempt, faults>>

\* steps 3 and 4, lines 1190-1202: insert the new text at index 1
WriteInsert ==
    /\ wfpc = "write"
    /\ wr.pc = "insert"
    /\ docText' = InsertText(docText, insert_index, new_text)
    /\ docStyle' = InsertStyle(docStyle, insert_index, new_text)
    /\ wr' = [wr EXCEPT !.pc = "style"]
    /\ hist' = [hist EXCEPT !.mutations = @ + 1]
    /\ UNCHANGED <<wfpc, run, call_ids, ap, new_summaries_added, summaries_text,
                   intelligence, status, attempt, faults>>

\* steps 5 and 6, lines 1206-1290: style the ranges of formatting_ranges,
\* counted from insert_index (the bullets of step 6 change no text and no
\* text style)
WriteStyle ==
    /\ wfpc = "write"
    /\ wr.pc = "style"
    /\ docStyle' = [i \in 1..Len(docStyle) |->
                        IF /\ insert_index <= i
                           /\ i < insert_index + Len(formatting_styles[intelligence])
                        THEN UpdateTextStyle(docStyle[i],
                                 formatting_styles[intelligence][i - insert_index + 1])
                        ELSE docStyle[i]]
    /\ wr' = [wr EXCEPT !.pc = IF old_intelligence_exists(wr) THEN "delete" ELSE "format"]
    /\ hist' = [hist EXCEPT !.mutations = @ + 1]
    /\ UNCHANGED <<docText, wfpc, run, call_ids, ap, new_summaries_added,
                   summaries_text, intelligence, status, attempt, faults>>

\* the orchestrator on a failed attempt of write_intelligence_to_doc
WriteRetry ==
    IF attempt < maximum_attempts
    THEN /\ wr' = [NoWrite EXCEPT !.pc = "read"]
         /\ attempt' = attempt + 1
         /\ UNCHANGED <<wfpc, status>>
    ELSE /\ wr' = [wr EXCEPT !.pc = "failed"]
         /\ wfpc' = "failed"
         /\ status' = "failed"
         /\ UNCHANGED attempt

\* a delete of the old section at the indices of the scan, not shifted
WriteDeleteOldUnshifted ==
    /\ wfpc = "write"
    /\ wr.pc = "delete"
    /\ LET new_start == wr.intelligence_start_index
           new_end == wr.intelligence_end_index
       IN  IF DeleteOk(docText, new_start, new_end)
           THEN /\ docText' = DeleteRange(docText, new_start, new_end)
                /\ docStyle' = DeleteRange(docStyle, new_start, new_end)
                /\ wr' = [wr EXCEPT !.pc = "format"]
                /\ hist' = [hist EXCEPT !.mutations = @ + 1,
                                        !.deleted = SubSeq(docText, new_start, new_end - 1)]
                /\ UNCHANGED <<wfpc, status, attempt>>
           ELSE /\ WriteRetry
                /\ UNCHANGED <<docText, docStyle, hist>>
    /\ UNCHANGED <<run, call_ids, ap, new_summaries_added, summaries_text,
                   intelligence, faults>>

\* step 7, lines 1292-1311: delete the old section at its indices shifted by
\* len(full_text); a range the store refuses fails the attempt
WriteDeleteOld ==
    /\ wfpc = "write"
    /\ wr.pc = "delete"
    /\ LET new_start == wr.intelligence_start_index + Len(new_text)
           new_end == wr.intelligence_end_index + Len(new_text)
       IN  IF DeleteOk(docText, new_start, new_end)
           THEN /\ docText' = DeleteRange(docText, new_start, new_end)
                /\ docStyle' = DeleteRange(docStyle, new_start, new_end)
                /\ wr' = [wr EXCEPT !.pc = "format"]
                /\ hist' = [hist EXCEPT !.mutations = @ + 1,
                                        !.deleted = SubSeq(docText, new_start, new_end - 1)]
                /\ UNCHANGED <<wfpc, status, attempt>>
           ELSE /\ WriteRetry
                /\ UNCHANGED <<docText, docStyle, hist>>
    /\ UNCHANGED <<run, call_ids, ap, new_summaries_added, summaries_text,
                   intelligence, faults>>

WriteReturns ==
    /\ wfpc' = "returned"
    /\ status' = "Account Intelligence Complete!"

\* step 8, lines 1313-1401: read the document again, collect the markdown
\* of every text run and apply the bold ranges (and the bullets)
WriteFormat ==
    /\ wfpc = "write"
    /\ wr.pc = "format"
    /\ LET scan == MarkdownScan(docText, docStyle)
       IN  /\ docStyle' = ApplyBold(docStyle, scan.bold_requests)
           /\ IF scan.delete_requests = {}
              THEN wr' = [wr EXCEPT !.pc = "done"] /\ WriteReturns
              ELSE /\ wr' = [wr EXCEPT !.pc = "format_delete",
                                       !.delete_requests = scan.delete_requests]
                   /\ UNCHANGED <<wfpc, status>>
           /\ hist' = [hist EXCEPT !.mutations =
                           @ + (IF scan.bold_requests = {} THEN 0 ELSE 1)]
    /\ UNCHANGED <<docText, run, call_ids, ap, new_summaries_added, summaries_text,
                   intelligence, attempt, faults>>

\* a batch issued in ascending start offset
RECURSIVE SortedByStartAsc(_)
SortedByStartAsc(ranges) ==
    IF ranges = {} THEN <<>>
    ELSE LET r == CHOOSE x \in ranges : \A y \in ranges : x[1] <= y[1]
         IN  <<r>> \o SortedByStartAsc(ranges \ {r})

delete_ops_ascending(requests) == SortedByStartAsc(requests)

\* the batch of deleteContentRange requests of step 8
delete_ops(requests) == SortedByStartDesc(requests)

\* step 8, lines 1403-1420: delete the markdown markers in one batch
WriteFormatDelete ==
    /\ wfpc = "write"
    /\ wr.pc = "format_delete"
    /\ LET ops == delete_ops(wr.delete_requests)
       IN  IF BatchDeleteOk(docText, ops)
           THEN /\ docText' = BatchDelete(docText, ops)
                /\ docStyle' = BatchDelete(docStyle, ops)
                /\ wr' = [wr EXCEPT !.pc = "done"]
                /\ WriteReturns
                /\ hist' = [hist EXCEPT !.mutations = @ + 1]
                /\ UNCHANGED attempt
           ELSE /\ WriteRetry
                /\ UNCHANGED <<docText, docStyle, hist>>
    /\ UNCHANGED <<run, call_ids, ap, new_summaries_added, summaries_text,
                   intelligence, faults>>

\* an attempt of write_intelligence_to_doc fails on its next request to the
\* document store
WriteFault ==
    /\ wfpc = "write"
    /\ wr.pc \in {"read", "insert", "style", "delete", "format", "format_delete"}
    /\ faults < MaxFaults
    /\ faults' = faults + 1
    /\ WriteRetry
    /\ UNCHANGED <<docText, docStyle, run, call_ids, ap, new_summaries_added,
                   summaries_text, intelligence, hist>>

\* append_summary_to_doc of a concurrently running workflow for the same
\* account inserts its block at index 1 between this activity's read and
\* its delete of the old section
OtherWriterInsert(id) ==
    /\ wfpc = "write"
    /\ wr.pc \in {"insert", "style", "delete"}
    /\ hist.other_inserts < MaxOtherInserts
    /\ ~Contains(CallIdLiteral(id), docText)
    /\ docText' = InsertText(docText, insert_index, text_with_newline(id))
    /\ docStyle' = InsertStyle(docStyle, insert_index, text_with_newline(id))
    /\ hist' = [hist EXCEPT !.other_inserts = @ + 1]
    /\ UNCHANGED <<wfpc, run, call_ids, ap, new_summaries_added, summaries_text,
                   intelligence, wr, status, attempt, faults>>

\* write_intelligence_to_doc is invoked again with the same intelligence
\* (the orchestrator did not record its completion and retries it)
WriteAgain ==
    /\ wfpc = "returned"
    /\ wr.pc = "done"
    /\ attempt < maximum_attempts
    /\ attempt' = attempt + 1
    /\ wfpc' = "write"
    /\ wr' = [NoWrite EXCEPT !.pc = "read"]
    /\ hist' = [hist EXCEPT !.invocations = @ + 1,
                            !.first_text = IF @ = <<>> THEN docText ELSE @]
    /\ UNCHANGED <<docText, docStyle, run, call_ids, ap, new_summaries_added,
                   summaries_text, intelligence, status, faults>>

----------------------------------------------------------------------------
(* The name helpers: normalize_company_name and extract_company_from_email *)

UpperLetters == <<"A","B","C","D","E","F","G","H","I","J","K","L","M","N","O","P","Q","R","S","T","U","V","W","X","Y","Z">>
LowerLetters == <<"a","b","c","d","e","f","g","h","i","j","k","l","m","n","o","p","q","r","s","t","u","v","w","x","y","z">>

\* Python: c.lower() for a letter of the Latin alphabet
LowerChar(c) ==
    IF \E k \in 1..Len(UpperLetters) : UpperLetters[k] = c
    THEN LowerLetters[CHOOSE k \in 1..Len(UpperLetters) : UpperLetters[k] = c]
    ELSE c

\* Python: t.lower()
PyLower(t) == [i \in 1..Len(t) |-> LowerChar(t[i])]

\* Python: t.replace(old, new), the occurrences taken from the left
RECURSIVE PyReplace(_, _, _)
PyReplace(t, old, new) ==
    IF t = <<>> THEN <<>>
    ELSE IF StartsWith(t, old)
    THEN new \o PyReplace(SubSeq(t, Len(old) + 1, Len(t)), old, new)
    ELSE <<t[1]>> \o PyReplace(Tail(t), old, new)

\* Python: t.endswith(pat)
PyEndsWith(t, pat) ==
    Len(t) >= Len(pat) /\ \A j \in 1..Len(pat) : t[Len(t) - Len(pat) + j] = pat[j]

\* Python: t.split("@")[1] for a t that holds "@"
RECURSIVE UpToAt(_)
UpToAt(t) == IF t = <<>> \/ t[1] = "@" THEN <<>> ELSE <<t[1]>> \o UpToAt(Tail(t))

SplitSecond(t) == UpToAt(SubSeq(t, Len(UpToAt(t)) + 2, Len(t)))

\* line 28
normalize_company_name(name) ==
    PyReplace(PyReplace(PyLower(name), <<" ">>, <<>>), <<"-">>, <<>>)

\* line 46: the suffixes in the order of the loop
tlds == <<<<".","c","o","m">>, <<".","i","o">>, <<".","a","i">>, <<".","n","e","t">>, <<".","o","r","g">>, <<".","c","o">>, <<".","e","d","u">>>>

\* a loop over the suffixes without the break of line 49
RECURSIVE remove_every_tld(_, _)
remove_every_tld(domain, k) ==
    IF k > Len(tlds) THEN domain
    ELSE IF PyEndsWith(domain, tlds[k])
    THEN remove_every_tld(SubSeq(domain, 1, Len(domain) - Len(tlds[k])), k + 1)
    ELSE remove_every_tld(domain, k + 1)

\* lines 46-49: the loop from suffix k on; the first suffix the domain ends
\* with is cut off and the loop ends
RECURSIVE remove_tld(_, _)
remove_tld(domain, k) ==
    IF k > Len(tlds) THEN domain
    ELSE IF PyEndsWith(domain, tlds[k])
    THEN SubSeq(domain, 1, Len(domain) - Len(tlds[k]))
    ELSE remove_tld(domain, k + 1)

\* lines 40-52
extract_company_from_email(e) ==
    IF ~Contains(<<"@">>, e) THEN <<>>
    ELSE normalize_company_name(remove_tld(SplitSecond(e), 1))

\* the strings the helpers are called with: a name or a domain made of a
\* stem and an ending, alone or behind a local part and "@", and with a
\* second "@" behind it
Stems == {<<>>, <<"a">>, <<"A","-","b">>, <<"a"," ","B">>, <<"A","-","b",".","i","o">>}
Endings == {<<>>} \cup {tlds[k] : k \in 1..Len(tlds)} \cup {<<".","C","O","M">>, <<".","u","k">>}
Locals == {<<"@">>, <<"u","@">>, <<"U","-","x","@">>}
Names == {st \o en : <<st, en>> \in Stems \X Endings}
Emails ==
    Names \cup {lo \o n \o tl : <<lo, n, tl>> \in Locals \X Names \X {<<>>, <<"@","z",".","i","o">>}}

\* a caller normalizes the string
NormalizeCompanyName ==
    /\ npc = "input"
    /\ company' = normalize_company_name(email)
    /\ npc' = "normalized"
    /\ UNCHANGED email

\* a caller extracts the company from the string
ExtractCompanyFromEmail ==
    /\ npc = "input"
    /\ company' = extract_company_from_email(email)
    /\ npc' = "extracted"
    /\ UNCHANGED email

\* the caller normalizes what a helper returned
NormalizeAgain ==
    /\ npc \in {"normalized", "extracted"}
    /\ company' = normalize_company_name(company)
    /\ npc' = "again"
    /\ UNCHANGED email

----------------------------------------------------------------------------
(* Discovery: fetch_all_call_ids and filter_calls_with_llm *)

\* the stale figure of the comment on the stop rule
stale_comment_threshold == 4

max_consecutive_empty == 6

\* for months_back in range(24)
window_range == 24

\* the windows of the platform that may hold calls, and what they hold:
\* "one" a matching call, "two" two matching calls on two pages, the older
\* one first, "none" a call of another company, "garbled" a call of another
\* company for which the classifier answers prose, "blank" a matching call
\* for which the classifier answers an empty text, "repeat" a matching call
\* whose index the classifier answers twice, "shared" the matching call of
\* the window before, whose time lies in both windows (lines 182-183: the
\* bounds of every window are taken from the time of its iteration)
BusyWindowChoices == {0, 2, 5, 11, 17, 23}

WindowKinds == {"one", "two", "none", "garbled", "blank"}

Platforms ==
    {[w \in 0..(window_range - 1) |-> IF w \in DOMAIN f THEN f[w] ELSE "empty"] :
        f \in UNION {[B -> WindowKinds] :
                        B \in {X \in SUBSET BusyWindowChoices :
                                  Cardinality(X) <= MaxBusyWindows}}}

MaxCallsChoices == {0, 1, 3, 5}

\* call k of window w: later windows are older, started orders the calls
Call(w, k) == [id |-> <<w, k>>, started |-> (window_range - w) * 10 + k]

\* the pages the platform answers for a window; all but the last carry a cursor
Pages(kind, w) ==
    CASE kind = "empty" -> << <<>> >>
      [] kind = "one" -> << <<Call(w, 1)>> >>
      [] kind = "two" -> << <<Call(w, 1)>>, <<Call(w, 2)>> >>
      [] kind = "none" -> << <<Call(w, 1)>> >>
      [] kind = "garbled" -> << <<Call(w, 1)>> >>
      [] kind = "blank" -> << <<Call(w, 1)>> >>
      [] kind = "repeat" -> << <<Call(w, 1)>> >>
      [] kind = "shared" -> << <<Call(w - 1, 1)>> >>

\* the classifier's answer for the calls of a window
ResponseText(kind) ==
    CASE kind = "one" -> [kind |-> "indices", indices |-> <<0>>]
      [] kind = "two" -> [kind |-> "indices", indices |-> <<0, 1>>]
      [] kind = "none" -> [kind |-> "NONE", indices |-> <<>>]
      [] kind = "garbled" -> [kind |-> "prose", indices |-> <<>>]
      [] kind = "blank" -> [kind |-> "empty_text", indices |-> <<>>]
      [] kind = "empty" -> [kind |-> "NONE", indices |-> <<>>]
      [] kind = "repeat" -> [kind |-> "indices", indices |-> <<0, 0>>]
      [] kind = "shared" -> [kind |-> "indices", indices |-> <<0>>]

\* a filter that accepts no call on an answer that is not an index list
filter_calls_fail_closed(calls, response_text) ==
    IF calls = <<>> THEN <<>>
    ELSE IF response_text.kind = "indices"
    THEN LET valid == SelectSeq(response_text.indices,
                                LAMBDA i : 0 <= i /\ i < Len(calls))
         IN  [n \in 1..Len(valid) |-> calls[valid[n] + 1]]
    ELSE <<>>

\* filter_calls_with_llm on the classifier's answer: lines 67-68 no call,
\* no request; 126-127 "NONE" or an empty text; 130-133 an index list;
\* 134-137 any other text
filter_calls_with_llm(calls, response_text) ==
    IF calls = <<>> THEN <<>>
    ELSE IF response_text.kind = "NONE" \/ response_text.kind = "empty_text" THEN <<>>
    ELSE IF response_text.kind = "indices"
    THEN LET valid == SelectSeq(response_text.indices,
                                LAMBDA i : 0 <= i /\ i < Len(calls))
         IN  [n \in 1..Len(valid) |-> calls[valid[n] + 1]]
    ELSE calls

\* matching_calls in the order they were accumulated
AccumulatedOrder(calls) == calls

\* matching_calls.sort(key=started, reverse=True): stable, newest first
RECURSIVE InsertByStarted(_, _)
InsertByStarted(sorted, c) ==
    IF sorted = <<>> THEN <<c>>
    ELSE IF Head(sorted).started >= c.started
    THEN <<Head(sorted)>> \o InsertByStarted(Tail(sorted), c)
    ELSE <<c>> \o sorted

RECURSIVE SortNewestFirst(_)
SortNewestFirst(calls) ==
    IF calls = <<>> THEN <<>>
    ELSE InsertByStarted(SortNewestFirst(SubSeq(calls, 1, Len(calls) - 1)),
                         calls[Len(calls)])

\* calls[-n:] for n >= 1, the oldest n
TakeLast(calls, n) ==
    SubSeq(calls, (IF n < Len(calls) THEN Len(calls) - n ELSE 0) + 1, Len(calls))

\* calls[:n] for n >= 0
Take(calls, n) == SubSeq(calls, 1, IF n < Len(calls) THEN n ELSE Len(calls))

NoResult == [call_ids |-> <<>>, total_count |-> 0]

DiscInit ==
    /\ dpc = "page"
    /\ platform \in Platforms
    /\ max_calls \in MaxCallsChoices
    /\ months_back = 0
    /\ matching_calls = <<>>
    /\ consecutive_empty_windows = 0
    /\ window_calls = <<>>
    /\ cursor = 0
    /\ windows_scanned = 0
    /\ window_matches_log = <<>>
    /\ dresult = NoResult

\* a page loop that ends as soon as the window holds max_calls calls
PageRequestStopsAtMax ==
    /\ dpc = "page"
    /\ LET pages == Pages(platform[months_back], months_back)
           page == cursor + 1
           more == page < Len(pages) /\ Len(window_calls \o pages[page]) < max_calls
       IN  /\ window_calls' = window_calls \o pages[page]
           /\ cursor' = IF more THEN page ELSE 0
           /\ dpc' = IF more THEN "page" ELSE "classify"
           /\ windows_scanned' = IF page = 1 THEN windows_scanned + 1 ELSE windows_scanned
    /\ UNCHANGED <<platform, max_calls, months_back, matching_calls,
                   consecutive_empty_windows, window_matches_log, dresult>>

\* lines 195-240: one page request of the window; a response without cursor
\* ends the window's pages
PageRequest ==
    /\ dpc = "page"
    /\ LET pages == Pages(platform[months_back], months_back)
           page == cursor + 1
       IN  /\ window_calls' = window_calls \o pages[page]
           /\ cursor' = IF page < Len(pages) THEN page ELSE 0
           /\ dpc' = IF page < Len(pages) THEN "page" ELSE "classify"
           /\ windows_scanned' = IF page = 1 THEN windows_scanned + 1 ELSE windows_scanned
    /\ UNCHANGED <<platform, max_calls, months_back, matching_calls,
                   consecutive_empty_windows, window_matches_log, dresult>>

\* a failed page request that hands back what was accumulated so far
PageRequestReturnsPartial ==
    /\ dpc = "page"
    /\ dpc' = "failed"
    /\ dresult' = [call_ids |-> [n \in 1..Len(matching_calls) |-> matching_calls[n].id],
                   total_count |-> Len(matching_calls)]
    /\ UNCHANGED <<platform, max_calls, months_back, matching_calls,
                   consecutive_empty_windows, window_calls, cursor, windows_scanned,
                   window_matches_log>>

\* lines 225-228: the platform answers a page request with an error status
\* (4xx, 5xx) and raise_for_status raises; nothing is returned
PageRequestFails ==
    /\ dpc = "page"
    /\ dpc' = "failed"
    /\ UNCHANGED <<platform, max_calls, months_back, matching_calls,
                   consecutive_empty_windows, window_calls, cursor, windows_scanned,
                   window_matches_log, dresult>>

\* a window loop without the early stop on max_calls
ClassifyWindowNoEarlyStop ==
    /\ dpc = "classify"
    /\ LET window_filtered ==
               filter_calls_with_llm(window_calls, ResponseText(platform[months_back]))
           window_matches == Len(window_filtered)
           matches == matching_calls \o window_filtered
           empties == IF window_matches = 0 THEN consecutive_empty_windows + 1 ELSE 0
           stop == \/ window_matches = 0 /\ empties >= max_consecutive_empty
                   \/ months_back + 1 >= window_range
       IN  /\ matching_calls' = matches
           /\ consecutive_empty_windows' = empties
           /\ window_matches_log' = Append(window_matches_log, window_matches)
           /\ IF stop
              THEN /\ dpc' = "sort"
                   /\ UNCHANGED <<months_back, window_calls, cursor>>
              ELSE /\ dpc' = "page"
                   /\ months_back' = months_back + 1
                   /\ window_calls' = <<>>
                   /\ cursor' = 0
    /\ UNCHANGED <<platform, max_calls, windows_scanned, dresult>>

\* a window loop that never resets the count of empty windows
ClassifyWindowNoReset ==
    /\ dpc = "classify"
    /\ LET window_filtered ==
               filter_calls_with_llm(window_calls, ResponseText(platform[months_back]))
           window_matches == Len(window_filtered)
           matches == matching_calls \o window_filtered
           empties == IF window_matches = 0 THEN consecutive_empty_windows + 1
                      ELSE consecutive_empty_windows
           stop == \/ window_matches = 0 /\ empties >= max_consecutive_empty
                   \/ Len(matches) >= max_calls
                   \/ months_back + 1 >= window_range
       IN  /\ matching_calls' = matches
           /\ consecutive_empty_windows' = empties
           /\ window_matches_log' = Append(window_matches_log, window_matches)
           /\ IF stop
              THEN /\ dpc' = "sort"
                   /\ UNCHANGED <<months_back, window_calls, cursor>>
              ELSE /\ dpc' = "page"
                   /\ months_back' = months_back + 1
                   /\ window_calls' = <<>>
                   /\ cursor' = 0
    /\ UNCHANGED <<platform, max_calls, windows_scanned, dresult>>

\* lines 242-271: classify the window's calls, keep the matches, count the
\* empty windows and decide whether the scan goes on
ClassifyWindow ==
    /\ dpc = "classify"
    /\ LET window_filtered ==
               filter_calls_with_llm(window_calls, ResponseText(platform[months_back]))
           window_matches == Len(window_filtered)
           matches == matching_calls \o window_filtered
           empties == IF window_matches = 0 THEN consecutive_empty_windows + 1 ELSE 0
           stop == \/ window_matches = 0 /\ empties >= max_consecutive_empty
                   \/ Len(matches) >= max_calls
                   \/ months_back + 1 >= window_range
       IN  /\ matching_calls' = matches
           /\ consecutive_empty_windows' = empties
           /\ window_matches_log' = Append(window_matches_log, window_matches)
           /\ IF stop
              THEN /\ dpc' = "sort"
                   /\ UNCHANGED <<months_back, window_calls, cursor>>
              ELSE /\ dpc' = "page"
                   /\ months_back' = months_back + 1
                   /\ window_calls' = <<>>
                   /\ cursor' = 0
    /\ UNCHANGED <<platform, max_calls, windows_scanned, dresult>>

\* the classifier request of a window that holds calls raises
ClassifierFails ==
    /\ dpc = "classify"
    /\ window_calls # <<>>
    /\ dpc' = "failed"
    /\ UNCHANGED <<platform, max_calls, months_back, matching_calls,
                   consecutive_empty_windows, window_calls, cursor, windows_scanned,
                   window_matches_log, dresult>>

\* a return whose total_count is taken after the cut
SortAndReturnCountsKept ==
    /\ dpc = "sort"
    /\ LET sorted == SortNewestFirst(matching_calls)
           kept == Take(sorted, max_calls)
       IN  /\ matching_calls' = sorted
           /\ dresult' = [call_ids |-> [n \in 1..Len(kept) |-> kept[n].id],
                          total_count |-> Len(kept)]
    /\ dpc' = "done"
    /\ UNCHANGED <<platform, max_calls, months_back, consecutive_empty_windows,
                   window_calls, cursor, windows_scanned, window_matches_log>>

\* lines 273-294: sort newest first, cut to max_calls, return
SortAndReturn ==
    /\ dpc = "sort"
    /\ LET sorted == SortNewestFirst(matching_calls)
           kept == Take(sorted, max_calls)
       IN  /\ matching_calls' = sorted
           /\ dresult' = [call_ids |-> [n \in 1..Len(kept) |-> kept[n].id],
                          total_count |-> Len(sorted)]
    /\ dpc' = "done"
    /\ UNCHANGED <<platform, max_calls, months_back, consecutive_empty_windows,
                   window_calls, cursor, windows_scanned, window_matches_log>>

----------------------------------------------------------------------------
(* scripts/test_gong_fetch_all.py: the diagnostic variant of the scan *)

diagnostic_max_consecutive_empty == 4

\* fetch_all_call_ids of the script on platform p, from window w on: the
\* calls whose title holds the company name are the matches (the calls of
\* the kinds "one", "two" and "blank"); the scan stops on max_calls and on
\* diagnostic_max_consecutive_empty empty windows once a match was found
RECURSIVE DiagnosticScan(_, _, _, _, _)
DiagnosticScan(p, limit, w, matches, empties) ==
    LET window_filtered ==
            IF p[w] \in {"one", "two", "blank"} THEN Flatten(Pages(p[w], w)) ELSE <<>>
        window_matches == Len(window_filtered)
        found == matches \o window_filtered
        count == IF window_matches = 0 THEN empties + 1 ELSE 0
        stop == \/ /\ window_matches = 0
                   /\ count >= diagnostic_max_consecutive_empty
                   /\ Len(found) > 0
                \/ Len(found) >= limit
                \/ w + 1 >= window_range
    IN  IF stop
        THEN LET sorted == SortNewestFirst(found)
                 kept == Take(sorted, limit)
             IN  [call_ids |-> [n \in 1..Len(kept) |-> kept[n].id],
                  total_count |-> Len(sorted),
                  windows_scanned |-> w + 1]
        ELSE DiagnosticScan(p, limit, w + 1, found, count)

----------------------------------------------------------------------------
(* Step 3a: fetch_and_summarize_call, one task per entry of call_ids *)

NoTask == [pc |-> "metadata", attempt |-> 1, issued |-> <<>>, outcomes |-> <<>>]

FetchOutcomes == {"ok", "error_status", "empty_list"}
CompletionOutcomes == {"ok", "error"}

\* the attempt raises: the orchestrator sees it fail
Raised(n) ==
    summarize_tasks' = [summarize_tasks EXCEPT ![n].pc = "raised"]

\* lines 529-534: a credential is not set; nothing is requested
MissingCredentials(n) ==
    /\ wfpc = "summarize"
    /\ n \in DOMAIN summarize_tasks
    /\ summarize_tasks[n].pc = "metadata"
    /\ Raised(n)
    /\ UNCHANGED <<docVars, response>>

\* lines 542-553: POST calls/extensive, raise_for_status, ["calls"][0]
MetadataFetch(n, outcome) ==
    /\ wfpc = "summarize"
    /\ n \in DOMAIN summarize_tasks
    /\ summarize_tasks[n].pc = "metadata"
    /\ summarize_tasks' =
           [summarize_tasks EXCEPT
               ![n].issued = Append(@, "metadata"),
               ![n].outcomes = Append(@, outcome),
               ![n].pc = IF outcome = "ok" THEN "transcript" ELSE "raised"]
    /\ UNCHANGED <<docVars, response>>

\* a transcript fetch whose answer is read without raise_for_status
TranscriptFetchUnchecked(n, outcome) ==
    /\ wfpc = "summarize"
    /\ n \in DOMAIN summarize_tasks
    /\ summarize_tasks[n].pc = "transcript"
    /\ summarize_tasks' =
           [summarize_tasks EXCEPT
               ![n].issued = Append(@, "transcript"),
               ![n].outcomes = Append(@, outcome),
               ![n].pc = IF outcome = "empty_list" THEN "raised" ELSE "parse"]
    /\ UNCHANGED <<docVars, response>>

\* lines 556-563: POST calls/transcript, raise_for_status,
\* ["callTranscripts"][0]
TranscriptFetch(n, outcome) ==
    /\ wfpc = "summarize"
    /\ n \in DOMAIN summarize_tasks
    /\ summarize_tasks[n].pc = "transcript"
    /\ summarize_tasks' =
           [summarize_tasks EXCEPT
               ![n].issued = Append(@, "transcript"),
               ![n].outcomes = Append(@, outcome),
               ![n].pc = IF outcome = "ok" THEN "parse" ELSE "raised"]
    /\ UNCHANGED <<docVars, response>>

\* lines 565-594: the transcript lines, the call date and the participants
\* are read from the two answers; a missing key or a date that does not
\* parse raises
ParseCall(n, parses) ==
    /\ wfpc = "summarize"
    /\ n \in DOMAIN summarize_tasks
    /\ summarize_tasks[n].pc = "parse"
    /\ summarize_tasks' =
           [summarize_tasks EXCEPT ![n].pc = IF parses THEN "completion" ELSE "raised"]
    /\ UNCHANGED <<docVars, response>>

\* lines 669-692: client.messages.create, then the block is formatted and
\* returned
CompletionCall(n, outcome) ==
    /\ wfpc = "summarize"
    /\ n \in DOMAIN summarize_tasks
    /\ summarize_tasks[n].pc = "completion"
    /\ summarize_tasks' =
           [summarize_tasks EXCEPT
               ![n].issued = Append(@, "completion"),
               ![n].outcomes = Append(@, outcome),
               ![n].pc = IF outcome = "ok" THEN "done" ELSE "raised"]
    /\ UNCHANGED <<docVars, response>>

\* an orchestrator that allows one attempt more than maximum_attempts
SummarizeRetryOnceMore(n) ==
    /\ wfpc = "summarize"
    /\ n \in DOMAIN summarize_tasks
    /\ summarize_tasks[n].pc = "raised"
    /\ summarize_tasks' =
           [summarize_tasks EXCEPT
               ![n] = IF @.attempt <= maximum_attempts
                      THEN [NoTask EXCEPT !.attempt = summarize_tasks[n].attempt + 1]
                      ELSE [@ EXCEPT !.pc = "failed"]]
    /\ UNCHANGED <<docVars, response>>

\* the orchestrator on a failed attempt: a new attempt, or the task fails
SummarizeRetry(n) ==
    /\ wfpc = "summarize"
    /\ n \in DOMAIN summarize_tasks
    /\ summarize_tasks[n].pc = "raised"
    /\ summarize_tasks' =
           [summarize_tasks EXCEPT
               ![n] = IF @.attempt < maximum_attempts
                      THEN [NoTask EXCEPT !.attempt = summarize_tasks[n].attempt + 1]
                      ELSE [@ EXCEPT !.pc = "failed"]]
    /\ UNCHANGED <<docVars, response>>

\* a join that goes on as soon as one task has returned
SummarizeJoinFirstDone ==
    /\ wfpc = "summarize"
    /\ \E n \in DOMAIN summarize_tasks : summarize_tasks[n].pc = "done"
    /\ wfpc' = "append"
    /\ ap' = [n \in 1..Len(call_ids) |-> [pc |-> "read", result |-> FALSE, attempt |-> 1]]
    /\ UNCHANGED <<docText, docStyle, run, call_ids, new_summaries_added,
                   summaries_text, intelligence, wr, status, attempt, faults, hist>>
    /\ UNCHANGED auxVars

\* workflow lines 97-110: gather returns when every task has returned, and
\* one append task per summary is dispatched; it raises when a task has
\* failed
SummarizeJoin ==
    /\ wfpc = "summarize"
    /\ \/ \A n \in DOMAIN summarize_tasks : summarize_tasks[n].pc = "done"
       \/ \E n \in DOMAIN summarize_tasks : summarize_tasks[n].pc = "failed"
    /\ IF \A n \in DOMAIN summarize_tasks : summarize_tasks[n].pc = "done"
       THEN /\ wfpc' = "append"
            /\ ap' = [n \in 1..Len(call_ids) |->
                          [pc |-> "read", result |-> FALSE, attempt |-> 1]]
            /\ UNCHANGED status
       ELSE /\ wfpc' = "failed"
            /\ status' = "failed"
            /\ UNCHANGED ap
    /\ UNCHANGED <<docText, docStyle, run, call_ids, new_summaries_added,
                   summaries_text, intelligence, wr, attempt, faults, hist>>
    /\ UNCHANGED auxVars

----------------------------------------------------------------------------
(* The run from its first step: the order of the steps and the retries *)

\* a step 1 without the early return of lines 66-68
FetchCallIdsNoEarlyReturn(ids) ==
    /\ wfpc = "fetch_ids"
    /\ call_ids' = ids
    /\ attempt' = 1
    /\ wfpc' = "find_doc"
    /\ UNCHANGED <<docText, docStyle, run, ap, new_summaries_added, summaries_text,
                   intelligence, wr, status, faults, hist>>
    /\ UNCHANGED auxVars

\* workflow lines 57-68: fetch_all_call_ids returns the ids; with none the
\* run returns at once
FetchCallIds(ids) ==
    /\ wfpc = "fetch_ids"
    /\ call_ids' = ids
    /\ attempt' = 1
    /\ IF ids = <<>>
       THEN wfpc' = "returned" /\ status' = "No calls found"
       ELSE wfpc' = "find_doc" /\ UNCHANGED status
    /\ UNCHANGED <<docText, docStyle, run, ap, new_summaries_added, summaries_text,
                   intelligence, wr, faults, hist>>
    /\ UNCHANGED auxVars

\* workflow lines 75-97: find_or_create_summaries_doc returns the document
\* and one summarize task per id is dispatched
FindOrCreateDoc ==
    /\ wfpc = "find_doc"
    /\ wfpc' = "summarize"
    /\ attempt' = 1
    /\ summarize_tasks' = [n \in 1..Len(call_ids) |-> NoTask]
    /\ UNCHANGED <<docText, docStyle, run, call_ids, ap, new_summaries_added,
                   summaries_text, intelligence, wr, status, faults, hist>>
    /\ UNCHANGED response

\* an attempt of fetch_all_call_ids, find_or_create_summaries_doc or
\* read_summaries_doc fails: the orchestrator starts another attempt, or
\* fails the run after maximum_attempts (workflow lines 49-53)
ActivityAttemptFails ==
    /\ wfpc \in {"fetch_ids", "find_doc", "read"}
    /\ IF attempt < maximum_attempts
       THEN attempt' = attempt + 1 /\ UNCHANGED <<wfpc, status>>
       ELSE wfpc' = "failed" /\ status' = "failed" /\ UNCHANGED attempt
    /\ UNCHANGED <<docText, docStyle, run, call_ids, ap, new_summaries_added,
                   summaries_text, intelligence, wr, faults, hist>>
    /\ UNCHANGED auxVars

\* an attempt of write_intelligence_to_doc fails on a read of the document
\* (lines 984 and 1313)
WriteReadFails ==
    /\ wfpc = "write"
    /\ wr.pc \in {"read", "format"}
    /\ WriteRetry
    /\ UNCHANGED <<docText, docStyle, run, call_ids, ap, new_summaries_added,
                   summaries_text, intelligence, faults, hist>>

----------------------------------------------------------------------------
(* The specifications *)

\* the discovery variables rest while a run works on the document
DiscIdle ==
    /\ dpc = "idle"
    /\ platform = <<>>
    /\ max_calls = 0
    /\ months_back = 0
    /\ matching_calls = <<>>
    /\ consecutive_empty_windows = 0
    /\ window_calls = <<>>
    /\ cursor = 0
    /\ windows_scanned = 0
    /\ window_matches_log = <<>>
    /\ dresult = NoResult

AuxIdle ==
    /\ response = NoResponse
    /\ summarize_tasks = <<>>

NameIdle ==
    /\ npc = "idle"
    /\ email = <<>>
    /\ company = <<>>

Init == DocInit /\ DiscIdle /\ AuxIdle /\ NameIdle

Next ==
    \/ \E ids \in IdLists(MaxIds) : WorkflowStart(ids) /\ UNCHANGED <<discVars, auxVars, nameVars>>
    \/ \E n \in 1..MaxIds : AppendRead(n) /\ UNCHANGED <<discVars, auxVars, nameVars>>
    \/ \E n \in 1..MaxIds : AppendInsert(n) /\ UNCHANGED <<discVars, auxVars, nameVars>>
    \/ \E n \in 1..MaxIds : AppendFault(n) /\ UNCHANGED <<discVars, auxVars, nameVars>>
    \/ \E n \in 1..MaxIds : AppendTimeout(n) /\ UNCHANGED <<discVars, auxVars, nameVars>>
    \/ AppendJoin /\ UNCHANGED <<discVars, auxVars, nameVars>>
    \/ ReadSummariesDoc /\ UNCHANGED <<discVars, auxVars, nameVars>>
    \/ \E b \in BriefNames : SynthesizeIntelligence(b) /\ UNCHANGED <<discVars, auxVars, nameVars>>
    \/ WriteRead /\ UNCHANGED <<discVars, auxVars, nameVars>>
    \/ WriteInsert /\ UNCHANGED <<discVars, auxVars, nameVars>>
    \/ WriteStyle /\ UNCHANGED <<discVars, auxVars, nameVars>>
    \/ WriteDeleteOld /\ UNCHANGED <<discVars, auxVars, nameVars>>
    \/ WriteFormat /\ UNCHANGED <<discVars, auxVars, nameVars>>
    \/ WriteFormatDelete /\ UNCHANGED <<discVars, auxVars, nameVars>>
    \/ WriteFault /\ UNCHANGED <<discVars, auxVars, nameVars>>

Spec == Init /\ [][Next]_vars

\* discovery alone: no run works on the document
InitDisc == DocInit /\ DiscInit /\ AuxIdle /\ NameIdle

NextDisc ==
    \/ PageRequest /\ UNCHANGED <<docVars, auxVars, nameVars>>
    \/ PageRequestFails /\ UNCHANGED <<docVars, auxVars, nameVars>>
    \/ ClassifyWindow /\ UNCHANGED <<docVars, auxVars, nameVars>>
    \/ ClassifierFails /\ UNCHANGED <<docVars, auxVars, nameVars>>
    \/ SortAndReturn /\ UNCHANGED <<docVars, auxVars, nameVars>>

SpecDisc == InitDisc /\ [][NextDisc]_vars

\* discovery on platforms whose two newest windows hold a call that the
\* classifier or the platform hands over twice
PlatformsShared ==
    {[w \in 0..(window_range - 1) |->
         IF w = 0 THEN a ELSE IF w = 1 THEN b ELSE "empty"] :
        <<a, b>> \in {x \in {"one", "two", "repeat", "empty"} \X
                             {"one", "shared", "repeat", "empty"} :
                         x[2] = "shared" => x[1] = "one"}}

InitDiscShared ==
    /\ DocInit /\ AuxIdle /\ NameIdle
    /\ dpc = "page"
    /\ platform \in PlatformsShared
    /\ max_calls \in MaxCallsChoices
    /\ months_back = 0
    /\ matching_calls = <<>>
    /\ consecutive_empty_windows = 0
    /\ window_calls = <<>>
    /\ cursor = 0
    /\ windows_scanned = 0
    /\ window_matches_log = <<>>
    /\ dresult = NoResult

SpecDiscShared == InitDiscShared /\ [][NextDisc]_vars

\* steps 4b and 5 on a document as earlier runs and other editors left it
StartPieces ==
    << [text |-> text_with_newline(<<"1">>),
        style |-> [i \in 1..Len(text_with_newline(<<"1">>)) |-> "plain"]],
       [text |-> full_text["A"],
        style |-> [i \in 1..Len(full_text["A"]) |->
                      UpdateTextStyle("plain", formatting_styles["A"][i])]],
       [text |-> full_text["B"],
        style |-> [i \in 1..Len(full_text["B"]) |->
                      UpdateTextStyle("plain", formatting_styles["B"][i])]],
       [text |-> start_marker \o NL,
        style |-> [i \in 1..(Len(start_marker) + 1) |-> "plain"]],
       [text |-> <<"*","*","-"," ","x","*","*","\n">>,
        style |-> [i \in 1..8 |-> "plain"]] >>

RECURSIVE PieceLists(_)
PieceLists(n) ==
    IF n = 0 THEN {<<>>}
    ELSE PieceLists(n - 1) \cup
         {Append(l, p) : l \in {m \in PieceLists(n - 1) : Len(m) = n - 1},
                         p \in 1..Len(StartPieces)}

StartDocs ==
    {[text |-> Flatten([i \in 1..Len(l) |-> StartPieces[l[i]].text]) \o NL,
      style |-> Flatten([i \in 1..Len(l) |-> StartPieces[l[i]].style]) \o <<"plain">>] :
        l \in {m \in PieceLists(MaxPieces) :
                  \A i, j \in 1..Len(m) : i # j => m[i] # m[j]}}

InitWrite ==
    /\ \E d \in StartDocs : docText = d.text /\ docStyle = d.style
    /\ wfpc = "synth"
    /\ run = 1
    /\ call_ids = <<>>
    /\ ap = <<>>
    /\ new_summaries_added = 1
    /\ summaries_text = <<>>
    /\ intelligence = "A"
    /\ wr = NoWrite
    /\ status = "none"
    /\ attempt = 1
    /\ faults = 0
    /\ hist = NoHist
    /\ DiscIdle
    /\ NameIdle
    /\ AuxIdle

NextWrite ==
    \/ \E r \in Responses : SynthesizeCompletion(r) /\ UNCHANGED <<discVars, nameVars>>
    \/ SynthesizeParse /\ UNCHANGED <<discVars, nameVars>>
    \/ WriteRead /\ UNCHANGED <<discVars, auxVars, nameVars>>
    \/ WriteInsert /\ UNCHANGED <<discVars, auxVars, nameVars>>
    \/ WriteStyle /\ UNCHANGED <<discVars, auxVars, nameVars>>
    \/ WriteDeleteOld /\ UNCHANGED <<discVars, auxVars, nameVars>>
    \/ WriteFormat /\ UNCHANGED <<discVars, auxVars, nameVars>>
    \/ WriteFormatDelete /\ UNCHANGED <<discVars, auxVars, nameVars>>
    \/ \E id \in CallIdSet : OtherWriterInsert(id) /\ UNCHANGED <<discVars, auxVars, nameVars>>
    \/ WriteAgain /\ UNCHANGED <<discVars, auxVars, nameVars>>

SpecWrite == InitWrite /\ [][NextWrite]_vars

\* step 3a alone: the summarize tasks of one run
InitSum ==
    /\ docText = NL
    /\ docStyle = <<"plain">>
    /\ wfpc = "summarize"
    /\ run = 1
    /\ call_ids \in IdLists(MaxIds) \ {<<>>}
    /\ ap = <<>>
    /\ new_summaries_added = 0
    /\ summaries_text = <<>>
    /\ intelligence = "A"
    /\ wr = NoWrite
    /\ status = "none"
    /\ attempt = 1
    /\ faults = 0
    /\ hist = NoHist
    /\ DiscIdle
    /\ NameIdle
    /\ response = NoResponse
    /\ summarize_tasks = [n \in 1..Len(call_ids) |-> NoTask]

NextSum ==
    \/ \E n \in 1..MaxIds : MissingCredentials(n) /\ UNCHANGED <<discVars, nameVars>>
    \/ \E n \in 1..MaxIds, o \in FetchOutcomes : MetadataFetch(n, o) /\ UNCHANGED <<discVars, nameVars>>
    \/ \E n \in 1..MaxIds, o \in FetchOutcomes : TranscriptFetch(n, o) /\ UNCHANGED <<discVars, nameVars>>
    \/ \E n \in 1..MaxIds, p \in BOOLEAN : ParseCall(n, p) /\ UNCHANGED <<discVars, nameVars>>
    \/ \E n \in 1..MaxIds, o \in CompletionOutcomes : CompletionCall(n, o) /\ UNCHANGED <<discVars, nameVars>>
    \/ \E n \in 1..MaxIds : SummarizeRetry(n) /\ UNCHANGED <<discVars, nameVars>>
    \/ SummarizeJoin /\ UNCHANGED <<discVars, nameVars>>

SpecSum == InitSum /\ [][NextSum]_vars

\* step 3b alone: one append_summary_to_doc task on a document that earlier
\* runs left with blocks and no section (their appends inserted, a later step
\* failed): blocks of the run's calls and of other calls of the account,
\* whose ids start with the id of one of the run's calls
LongerIds == {<<"1", "2">>, <<"2", "1">>}

AppendPieces ==
    {text_with_newline(id) : id \in CallIdSet}
    \cup {FormatBlock(id, Calls[<<id[1]>>]) \o NL : id \in LongerIds}

AppendDocs ==
    {NL} \cup {b \o NL : b \in AppendPieces}
    \cup {b \o c \o NL : <<b, c>> \in {x \in AppendPieces \X AppendPieces : x[1] # x[2]}}

InitAppend ==
    /\ docText \in AppendDocs
    /\ docStyle = [i \in 1..Len(docText) |-> "plain"]
    /\ wfpc = "append"
    /\ run = 1
    /\ call_ids \in {<<id>> : id \in CallIdSet}
    /\ ap = <<[pc |-> "read", result |-> FALSE, attempt |-> 1]>>
    /\ new_summaries_added = 0
    /\ summaries_text = <<>>
    /\ intelligence = "A"
    /\ wr = NoWrite
    /\ status = "none"
    /\ attempt = 1
    /\ faults = 0
    /\ hist = NoHist
    /\ DiscIdle
    /\ NameIdle
    /\ AuxIdle

NextAppend ==
    \/ \E n \in 1..MaxIds : AppendRead(n) /\ UNCHANGED <<discVars, auxVars, nameVars>>
    \/ \E n \in 1..MaxIds : AppendInsert(n) /\ UNCHANGED <<discVars, auxVars, nameVars>>
    \/ \E n \in 1..MaxIds : AppendFault(n) /\ UNCHANGED <<discVars, auxVars, nameVars>>
    \/ \E n \in 1..MaxIds : AppendTimeout(n) /\ UNCHANGED <<discVars, auxVars, nameVars>>
    \/ AppendJoin /\ UNCHANGED <<discVars, auxVars, nameVars>>

SpecAppend == InitAppend /\ [][NextAppend]_vars

\* the name helpers alone, on every string of Emails
InitName ==
    /\ DocInit /\ DiscIdle /\ AuxIdle
    /\ npc = "input"
    /\ email \in Emails
    /\ company = <<>>

NextName ==
    \/ NormalizeCompanyName /\ UNCHANGED <<docVars, discVars, auxVars>>
    \/ ExtractCompanyFromEmail /\ UNCHANGED <<docVars, discVars, auxVars>>
    \/ NormalizeAgain /\ UNCHANGED <<docVars, discVars, auxVars>>

SpecName == InitName /\ [][NextName]_vars

\* one run from its first step on an empty document
InitRun ==
    /\ docText = NL
    /\ docStyle = <<"plain">>
    /\ wfpc = "fetch_ids"
    /\ run = 1
    /\ call_ids = <<>>
    /\ ap = <<>>
    /\ new_summaries_added = 0
    /\ summaries_text = <<>>
    /\ intelligence = "A"
    /\ wr = NoWrite
    /\ status = "none"
    /\ attempt = 1
    /\ faults = 0
    /\ hist = NoHist
    /\ DiscIdle
    /\ NameIdle
    /\ AuxIdle

\* the inputs of the run: no call, one call or two calls found, and an answer
\* of the completion API that parses or one that does not
RunIdLists == {l \in IdLists(MaxIds) : l = <<>> \/ l[1] = <<"1">>}
RunResponses == {r \in Responses : r.prefix = <<>> /\ r.suffix = <<>> /\ r.json # "B"}

\* the summarize tasks whose requests may fail in the run
FailingTasks == {1}

NextRun ==
    \/ \E ids \in RunIdLists : FetchCallIds(ids) /\ UNCHANGED <<discVars, nameVars>>
    \/ FindOrCreateDoc /\ UNCHANGED <<discVars, nameVars>>
    \/ ActivityAttemptFails /\ UNCHANGED <<discVars, nameVars>>
    \/ WriteReadFails /\ UNCHANGED <<discVars, auxVars, nameVars>>
    \/ \E n \in FailingTasks : MissingCredentials(n) /\ UNCHANGED <<discVars, nameVars>>
    \/ \E n \in 1..MaxIds, o \in FetchOutcomes :
           (n \in FailingTasks \/ o = "ok") /\ MetadataFetch(n, o) /\ UNCHANGED <<discVars, nameVars>>
    \/ \E n \in 1..MaxIds, o \in FetchOutcomes :
           (n \in FailingTasks \/ o = "ok") /\ TranscriptFetch(n, o) /\ UNCHANGED <<discVars, nameVars>>
    \/ \E n \in 1..MaxIds, p \in BOOLEAN :
           (n \in FailingTasks \/ p) /\ ParseCall(n, p) /\ UNCHANGED <<discVars, nameVars>>
    \/ \E n \in 1..MaxIds, o \in CompletionOutcomes :
           (n \in FailingTasks \/ o = "ok") /\ CompletionCall(n, o) /\ UNCHANGED <<discVars, nameVars>>
    \/ \E n \in 1..MaxIds : SummarizeRetry(n) /\ UNCHANGED <<discVars, nameVars>>
    \/ SummarizeJoin /\ UNCHANGED <<discVars, nameVars>>
    \/ \E n \in 1..MaxIds : AppendRead(n) /\ UNCHANGED <<discVars, auxVars, nameVars>>
    \/ \E n \in 1..MaxIds : AppendInsert(n) /\ UNCHANGED <<discVars, auxVars, nameVars>>
    \/ \E n \in 1..MaxIds : AppendFault(n) /\ UNCHANGED <<discVars, auxVars, nameVars>>
    \/ \E n \in 1..MaxIds : AppendTimeout(n) /\ UNCHANGED <<discVars, auxVars, nameVars>>
    \/ AppendJoin /\ UNCHANGED <<discVars, auxVars, nameVars>>
    \/ ReadSummariesDoc /\ UNCHANGED <<discVars, auxVars, nameVars>>
    \/ \E r \in RunResponses : SynthesizeCompletion(r) /\ UNCHANGED <<discVars, nameVars>>
    \/ SynthesizeParse /\ UNCHANGED <<discVars, nameVars>>
    \/ WriteRead /\ UNCHANGED <<discVars, auxVars, nameVars>>
    \/ WriteInsert /\ UNCHANGED <<discVars, auxVars, nameVars>>
    \/ WriteStyle /\ UNCHANGED <<discVars, auxVars, nameVars>>
    \/ WriteDeleteOld /\ UNCHANGED <<discVars, auxVars, nameVars>>
    \/ WriteFormat /\ UNCHANGED <<discVars, auxVars, nameVars>>
    \/ WriteFormatDelete /\ UNCHANGED <<discVars, auxVars, nameVars>>

SpecRun == InitRun /\ [][NextRun]_vars

\* every attempt terminates: a step that can be taken is taken
FairSpecRun == SpecRun /\ WF_vars(NextRun)

----------------------------------------------------------------------------
(* Properties of the document protocol *)

\* one append_summary_to_doc invocation run alone on document t
append_summary_to_doc(t, id) ==
    IF Contains(CallIdLiteral(id), t)
    THEN [text |-> t, result |-> FALSE]
    ELSE [text |-> InsertText(t, insert_index, text_with_newline(id)), result |-> TRUE]

\* the text without the markdown markers step 8 deletes: every "*" and the
\* "- " that starts a paragraph
Unmark(t) ==
    LET Marker(i) == \/ t[i] = "*"
                     \/ /\ t[i] = "-" /\ (i = 1 \/ t[i - 1] = "\n")
                        /\ i < Len(t) /\ t[i + 1] = " "
                     \/ /\ t[i] = " " /\ i > 1 /\ t[i - 1] = "-"
                        /\ (i = 2 \/ t[i - 2] = "\n")
        kept == SelectSeq([i \in 1..Len(t) |-> <<t[i], Marker(i)>>], LAMBDA e : ~e[2])
    IN  [i \in 1..Len(kept) |-> kept[i][1]]

UnmarkedBlock == [id \in CallIdSet |-> Unmark(formatted_summary[id])]

\* the summary block of call id is in t, complete but for its markdown markers
BlockIn(id, t) == Contains(UnmarkedBlock[id], Unmark(t))

\* number of summary blocks of call id in t
BlockCount(id, t) == Count(S_CallId \o id \o NL, t)

\* number of paragraphs of t that read exactly line (line ends with "\n")
LineCount(line, t) == Count(NL \o line, NL \o t)

\* C1: in every reachable state the document holds at most one summary block
\* per call id.
C1_AtMostOneBlockPerCallId ==
    \A id \in CallIdSet : BlockCount(id, docText) <= 1

\* C2: from every document the program can reach, two successive
\* append_summary_to_doc invocations with the same block and key leave exactly
\* one occurrence of "Call ID: <key>"; the second one returns False and leaves
\* the text as it is.
C2_AppendTwiceOneOccurrence ==
    \A id \in CallIdSet :
        LET first == append_summary_to_doc(docText, id)
            second == append_summary_to_doc(first.text, id)
        IN  /\ Count(CallIdLiteral(id), second.text) = 1
            /\ second.result = FALSE
            /\ second.text = first.text

\* C3: every summary block that was inserted into the document is still in
\* it, complete, whatever appends and section writes (also re-attempted ones)
\* followed.
C3_SummaryBlocksNeverDropped ==
    \A id \in hist.written : BlockIn(id, docText)

\* C4: after every completed write_intelligence_to_doc the document holds
\* exactly one Intelligence Section: one title line, one end-marker line and
\* the four separator lines of that section, no text of an earlier section.
C4_ExactlyOneSection ==
    wr.pc = "done" =>
        /\ LineCount(start_marker \o NL, docText) = 1
        /\ LineCount(end_marker \o NL, docText) = 1
        /\ LineCount(separator_line, docText) = 4

\* C5: when the document read by a completed write_intelligence_to_doc held
\* a section written before and no markdown, its length afterwards is the
\* length before, minus the length of the old section text as inserted, plus
\* the length of the new text.
C5_LengthAfterReplace ==
    (wr.pc = "done" /\ hist.old_len > 0 /\ ~hist.markup) =>
        Len(docText) = hist.len_before - hist.old_len + Len(new_text)

\* the date of the summary header that starts at position p of t
HeaderDate(t, p) == SubSeq(t, p + Len(S_HeaderOpen), p + Len(S_HeaderOpen) + 9)

\* C6: the text read_summaries_doc returned holds the summary blocks by
\* call date, earliest first, whatever their order in the document.
C6_ReadInDateOrder ==
    LET headers == Occ(S_HeaderOpen, summaries_text)
    IN  \A p \in headers : \A q \in headers :
            p < q => StrLeq(HeaderDate(summaries_text, p), HeaderDate(summaries_text, q))

\* C6 happens: the document holds a later call above an earlier one and
\* both blocks were read.
C6_Witness ==
    /\ wfpc = "synth"
    /\ Count(S_HeaderOpen, summaries_text) >= 2
    /\ \E p \in Occ(S_HeaderOpen, docText) : \E q \in Occ(S_HeaderOpen, docText) :
           p < q /\ ~StrLeq(HeaderDate(docText, p), HeaderDate(docText, q))

C8_NoUpdatesNeeded ==
    (run > 0 /\ call_ids # <<>> /\ hist.present_at_start) =>
        /\ hist.mutations = 0
        /\ hist.steps = {}
        /\ wfpc \in {"append", "returned", "failed"}
        /\ wfpc = "returned" => status = "No Updates Needed"

\* C8 happens: such a run has returned.
C8_Witness ==
    /\ run > 0 /\ call_ids # <<>> /\ hist.present_at_start
    /\ wfpc = "returned"
    /\ status = "No Updates Needed"

----------------------------------------------------------------------------
(* Properties of discovery *)

\* the number of matches the platform yields in window w
PlatformMatches(w) ==
    Len(filter_calls_with_llm(Flatten(Pages(platform[w], w)), ResponseText(platform[w])))

ScanEnded == dpc \in {"sort", "done"}

\* the scan never goes past the window at which the count of consecutive
\* zero-match windows reaches 6
StopsAtSixthEmptyWindow ==
    /\ consecutive_empty_windows <= max_consecutive_empty
    /\ consecutive_empty_windows = max_consecutive_empty => ScanEnded

FirstSixWindowsEmpty ==
    \A w \in 0..5 : PlatformMatches(w) = 0

StartedOf(id) == Call(id[1], id[2]).started

\* C10: for max_calls >= 1, when more matches than max_calls were
\* accumulated, the returned id list has exactly max_calls entries, the newest
\* call first.
C10_TruncatedNewestFirst ==
    (dpc = "done" /\ max_calls >= 1 /\ Len(matching_calls) > max_calls) =>
        /\ Len(dresult.call_ids) = max_calls
        /\ \A m \in 1..Len(dresult.call_ids) : \A n \in 1..Len(dresult.call_ids) :
               m < n => StartedOf(dresult.call_ids[m]) >= StartedOf(dresult.call_ids[n])

\* C10 happens: matches from three windows no two of which are adjacent,
\* more than max_calls in all, were cut to max_calls.
C10_Witness ==
    /\ dpc = "done"
    /\ max_calls >= 1
    /\ Len(matching_calls) > max_calls
    /\ Len(dresult.call_ids) = max_calls
    /\ \E u \in 1..Len(window_matches_log) : \E v \in 1..Len(window_matches_log) :
       \E w \in 1..Len(window_matches_log) :
           /\ u + 1 < v /\ v + 1 < w
           /\ window_matches_log[u] > 0 /\ window_matches_log[v] > 0
           /\ window_matches_log[w] > 0

\* the matching calls the platform holds in window w
PlatformMatchCalls(w) ==
    filter_calls_with_llm(Flatten(Pages(platform[w], w)), ResponseText(platform[w]))

Returned(id) == \E n \in 1..Len(dresult.call_ids) : dresult.call_ids[n] = id

\* C11: the ids returned are the most recent matching calls: no matching
\* call of the 24 windows that is left out of the returned list is newer than a
\* call in it, whichever rule ended the scan.
C11_MostRecentReturned ==
    dpc = "done" =>
        \A w \in 0..(window_range - 1) :
            \A k \in 1..Len(PlatformMatchCalls(w)) :
                LET c == PlatformMatchCalls(w)[k]
                IN  ~Returned(c.id) =>
                        \A n \in 1..Len(dresult.call_ids) :
                            StartedOf(dresult.call_ids[n]) >= c.started

\* C11 happens: a scan that ended on six empty windows returned ids and
\* left out a matching call of an older window, and a scan that ended on
\* max_calls cut a match of a scanned window; here the first.
C11_Witness ==
    /\ dpc = "done"
    /\ consecutive_empty_windows = max_consecutive_empty
    /\ Len(dresult.call_ids) >= 1
    /\ \E w \in (months_back + 1)..(window_range - 1) : PlatformMatches(w) > 0

----------------------------------------------------------------------------
(* Properties of the synthesis and of the write on a given document *)

\* the marker scan of the running attempt found a start marker and no end
\* marker after it
MalformedMarkerPair ==
    wr.intelligence_start_index # 0 /\ wr.intelligence_end_index = 0

\* C13: an attempt of write_intelligence_to_doc whose marker scan finds a
\* start marker and no later end marker fails and issues no mutation: it
\* never gets past the scan to the insert, the styling, the delete or the
\* formatting pass.
C13_MalformedMarkersFail ==
    MalformedMarkerPair =>
        wr.pc \notin {"style", "delete", "format", "format_delete", "done"}

\* C14: when the formatting pass of step 8 has finished, a second pass over
\* the same document finds nothing to convert: no bold span and no bullet
\* marker is left, so it would delete no character.
C14_SecondPassNoOp ==
    wr.pc = "done" => MarkdownScan(docText, docStyle).delete_requests = {}

\* C15: when write_intelligence_to_doc has been invoked twice in succession
\* with the same intelligence and no other writer acted, the document text
\* equals the text the first invocation left.
C15_WriteTwiceSameText ==
    (hist.invocations = 2 /\ wr.pc = "done" /\ hist.other_inserts = 0) =>
        docText = hist.first_text

\* C16: when another writer has inserted at index 1 between the read and
\* the delete of write_intelligence_to_doc, the delete of step 7 still
\* removes text of the old Intelligence Section only.
C16_DeleteOnlyOldSection ==
    (hist.other_inserts > 0 /\ hist.old_len > 0 /\ hist.deleted # <<>>) =>
        \E b \in BriefNames : Contains(hist.deleted, full_text[b])

----------------------------------------------------------------------------
(* Properties of the workflow's result *)

\* the values the returned f-string carries, per outcome (lines 68, 122-126
\* and 157-170 of workflow_intelligence.py)
ResultFields(message) ==
    CASE message = "No calls found" -> {"account_name"}
      [] message = "No Updates Needed" ->
             {"account_display_name", "len(call_ids)", "summaries_doc_url"}
      [] message = "Account Intelligence Complete!" ->
             {"account_display_name", "len(call_ids)", "total_count",
              "summaries_doc_url", "intelligence"}
      [] OTHER -> {}

\* C17: every status string a run returns carries the document's URL.
C17_ResultCarriesUrl ==
    wfpc = "returned" => "summaries_doc_url" \in ResultFields(status)

----------------------------------------------------------------------------
(* Properties of synthesize_intelligence *)

\* C18: whatever stands before and after the JSON object of a completion
\* response (a code fence, prose or nothing), the parse step takes the text
\* from the first "{" to the last "}": it returns the brief of that object.
C18_ParsesFirstToLastBrace ==
    [][(/\ wfpc = "synth"
        /\ response # NoResponse
        /\ response.json \in BriefNames
        /\ response' = NoResponse)
       => (wfpc' = "write" /\ intelligence' = response.json)]_vars

\* C19 as stated: once a response of the run could not be parsed,
\* write_intelligence_to_doc is never executed in that run.
C19_ParseFailureNeverWrites ==
    hist.parse_failures > 0 => "write" \notin hist.steps

\* C19, amended: write_intelligence_to_doc is executed only after an attempt
\* of synthesize_intelligence whose response parsed; when the response of
\* every attempt (maximum_attempts) could not be parsed, the run fails, the
\* write is not executed and no mutation of the document is issued.
C19_FailedSynthesisNeverWrites ==
    /\ "write" \in hist.steps => "synth" \in hist.steps
    /\ hist.parse_failures = maximum_attempts =>
           /\ wfpc = "failed"
           /\ "write" \notin hist.steps
           /\ hist.mutations = 0

C19_Witness ==
    /\ hist.parse_failures = maximum_attempts
    /\ wfpc = "failed"
    /\ wr.pc = "idle"

----------------------------------------------------------------------------
(* Properties of fetch_and_summarize_call *)

RequestOrder == <<"metadata", "transcript", "completion">>

\* C20: in every attempt of fetch_and_summarize_call the requests issued are
\* a prefix of metadata fetch, transcript fetch, completion call, and a
\* request is issued only when the one before it succeeded: after a failed
\* metadata fetch neither of the others is issued, after a failed transcript
\* fetch the completion call is not issued.
C20_EachCallAfterPreviousSucceeded ==
    \A n \in DOMAIN summarize_tasks :
        LET t == summarize_tasks[n]
        IN  /\ Len(t.issued) <= Len(RequestOrder)
            /\ \A k \in 1..Len(t.issued) : t.issued[k] = RequestOrder[k]
            /\ \A k \in 2..Len(t.issued) : t.outcomes[k - 1] = "ok"

C20_Witness ==
    /\ \E n \in DOMAIN summarize_tasks :
           /\ summarize_tasks[n].pc \in {"raised", "failed"}
           /\ summarize_tasks[n].issued = <<"metadata">>
           /\ summarize_tasks[n].outcomes[1] # "ok"
    /\ \E n \in DOMAIN summarize_tasks :
           /\ summarize_tasks[n].pc \in {"raised", "failed"}
           /\ summarize_tasks[n].issued = <<"metadata", "transcript">>
           /\ summarize_tasks[n].outcomes[2] # "ok"

----------------------------------------------------------------------------
(* Properties of the classification fallback and of the scan *)

\* the calls of window w, all pages
WindowCalls(w) == Flatten(Pages(platform[w], w))

\* window w has been classified
Classified(w) == w + 1 <= Len(window_matches_log)

\* every call of window w is among the accumulated matches
AllAccepted(w) ==
    /\ window_matches_log[w + 1] = Len(WindowCalls(w))
    /\ \A k \in 1..Len(WindowCalls(w)) :
           \E n \in 1..Len(matching_calls) : matching_calls[n] = WindowCalls(w)[k]

\* C21 as stated: for a window that holds calls, an unparseable and an
\* empty classification response both make every call of the window a
\* match.
C21_FailsOpenOnUnparseableOrEmpty ==
    \A w \in 0..(window_range - 1) :
        (Classified(w) /\ platform[w] \in {"garbled", "blank"}) => AllAccepted(w)

\* C21, amended: for a window that holds calls, an unparseable response
\* makes every call of the window a match, and the window resets the
\* consecutive-empty counter; an empty response makes no call a match, and
\* the window counts as empty.
C21_FailsOpenOnUnparseableOnly ==
    \A w \in 0..(window_range - 1) :
        Classified(w) =>
            /\ platform[w] = "garbled" =>
                   /\ AllAccepted(w)
                   /\ Len(window_matches_log) = w + 1 => consecutive_empty_windows = 0
            /\ platform[w] = "blank" =>
                   /\ window_matches_log[w + 1] = 0
                   /\ Len(window_matches_log) = w + 1 => consecutive_empty_windows > 0

C21_Witness ==
    /\ \E w \in 0..(window_range - 1) : Classified(w) /\ platform[w] = "garbled"
    /\ \E w \in 0..(window_range - 1) :
           /\ platform[w] = "blank"
           /\ Len(window_matches_log) = w + 1
           /\ consecutive_empty_windows > 1

RECURSIVE SumSeq(_)
SumSeq(q) == IF q = <<>> THEN 0 ELSE Head(q) + SumSeq(Tail(q))

\* some accumulated match is not among the returned ids
Clipped ==
    \E n \in 1..Len(matching_calls) : ~Returned(matching_calls[n].id)

\* C23: total_count is the number of matches accumulated over the scanned
\* windows, before the cut; the id list has min(max_calls, total_count)
\* entries; total_count exceeds the length of the id list exactly when a
\* match was cut off.
C23_TotalCountBeforeTruncation ==
    dpc = "done" =>
        /\ dresult.total_count = SumSeq(window_matches_log)
        /\ dresult.total_count = Len(matching_calls)
        /\ Len(dresult.call_ids) =
               IF max_calls < dresult.total_count THEN max_calls ELSE dresult.total_count
        /\ (dresult.total_count > Len(dresult.call_ids)) <=> Clipped

C23_Witness ==
    /\ dpc = "done"
    /\ Len(dresult.call_ids) >= 1
    /\ dresult.total_count > Len(dresult.call_ids)

\* C24: the pages of a window are requested until a response carries no
\* cursor, however many calls are collected; the classifier is invoked once
\* per window, after the last page, on the calls of all its pages.
C24_WindowDrainedThenClassifiedOnce ==
    /\ dpc = "page" =>
           /\ Len(window_matches_log) = months_back
           /\ window_calls =
                  Flatten(SubSeq(Pages(platform[months_back], months_back), 1, cursor))
    /\ dpc = "classify" =>
           /\ Len(window_matches_log) = months_back
           /\ cursor = 0
           /\ window_calls = WindowCalls(months_back)
    /\ dpc \in {"sort", "done"} =>
           /\ Len(window_matches_log) = months_back + 1
           /\ windows_scanned = months_back + 1
    /\ \A w \in 0..(window_range - 1) :
           Classified(w) =>
               window_matches_log[w + 1] =
                   Len(filter_calls_with_llm(WindowCalls(w), ResponseText(platform[w])))

C24_Witness ==
    /\ dpc = "classify"
    /\ Len(window_calls) = 2
    /\ max_calls = 1
    /\ months_back > 0

\* the matches accumulated at the end of window w
AccumulatedAfter(w) == SumSeq(SubSeq(window_matches_log, 1, w + 1))

\* C25: once the accumulated number of matches is at least max_calls at the
\* end of a window, no further page request is issued: that window is the
\* last one scanned.
C25_NoScanAfterMaxCalls ==
    \A w \in 0..(window_range - 1) :
        (Classified(w) /\ AccumulatedAfter(w) >= max_calls) =>
            /\ dpc \in {"sort", "done"}
            /\ months_back = w
            /\ windows_scanned = w + 1

C25_Witness ==
    /\ dpc = "done"
    /\ max_calls >= 3
    /\ Len(matching_calls) >= max_calls
    /\ \E w \in (months_back + 1)..(window_range - 1) : platform[w] \in {"one", "two"}

\* on this platform the classifier answers what the title predicate finds
ClassifierIsTitlePredicate ==
    \A w \in 0..(window_range - 1) : platform[w] \in {"empty", "one", "two", "none"}

\* C28: on a platform for which the classifier answers what the
\* substring-in-title predicate finds, the diagnostic variant scans as many
\* windows as the main engine did and returns the same id list and the
\* same total count.
C28_DiagnosticVariantAgrees ==
    (dpc = "done" /\ ClassifierIsTitlePredicate) =>
        LET diagnostic == DiagnosticScan(platform, max_calls, 0, <<>>, 0)
        IN  /\ diagnostic.windows_scanned = windows_scanned
            /\ diagnostic.call_ids = dresult.call_ids
            /\ diagnostic.total_count = dresult.total_count

----------------------------------------------------------------------------
(* Properties of the document's layout and of the run's order of steps *)

\* C22: whenever the document holds an Intelligence Section, the section
\* is the topmost region: no summary block starts above its title.
C22_SectionIsTopmost ==
    Contains(start_marker, docText) =>
        \A p \in Occ(S_HeaderOpen, docText) : p > Min(Occ(start_marker, docText))

AllSummarized ==
    /\ Len(summarize_tasks) = Len(call_ids)
    /\ \A n \in DOMAIN summarize_tasks : summarize_tasks[n].pc = "done"

AllAppended ==
    /\ Len(ap) = Len(call_ids)
    /\ \A n \in DOMAIN ap : ap[n].pc = "done"

\* C26: the steps of a run are ordered by all-complete barriers: an append
\* task exists only when every summarize task of the run has completed, the
\* read starts only when every append task has completed, the synthesis only
\* after the read, and the write only after the synthesis.
C26_StepsBehindBarriers ==
    /\ ap # <<>> => AllSummarized
    /\ (wfpc \in {"read", "synth", "write"} \/ hist.steps # {}) => AllAppended
    /\ (wfpc = "synth" \/ response # NoResponse \/ "synth" \in hist.steps)
           => "read" \in hist.steps
    /\ (wfpc = "write" \/ wr.pc # "idle" \/ "write" \in hist.steps)
           => "synth" \in hist.steps

\* a run of two calls, one of them summarized on a later attempt, has written
\* its section
C26_Witness ==
    /\ wfpc = "returned"
    /\ wr.pc = "done"
    /\ Len(call_ids) = 2
    /\ \E n \in DOMAIN summarize_tasks : summarize_tasks[n].attempt > 1
    /\ hist.steps = {"read", "synth", "write"}

RunEnded == wfpc \in {"returned", "failed"}

AttemptsBounded ==
    /\ attempt \in 1..maximum_attempts
    /\ \A n \in DOMAIN summarize_tasks : summarize_tasks[n].attempt \in 1..maximum_attempts
    /\ \A n \in DOMAIN ap : ap[n].attempt \in 1..maximum_attempts

\* a returned run has no failed task, and a failed task stops the fan-out
\* after it
FailureIsFinal ==
    /\ (\E n \in DOMAIN summarize_tasks : summarize_tasks[n].pc = "failed")
           => wfpc \in {"summarize", "failed"} /\ ap = <<>>
    /\ (\E n \in DOMAIN ap : ap[n].pc = "failed")
           => wfpc = "failed" /\ hist.steps = {}
    /\ wfpc = "returned" => status # "failed" /\ status # "none"
    /\ wfpc = "failed" => status = "failed"

\* C27: each activity is attempted at most maximum_attempts (3) times; when
\* its third attempt fails the run ends in failure and nothing is executed
\* after it; and, every attempt terminating, every run ends with a status
\* string or a failure.
C27_BoundedAttemptsAndTermination ==
    /\ [](AttemptsBounded /\ FailureIsFinal)
    /\ [][wfpc = "failed" => UNCHANGED vars]_vars
    /\ <>RunEnded

\* the run has failed on the third attempt of a summarize task
C27_Witness ==
    /\ wfpc = "failed"
    /\ \E n \in DOMAIN summarize_tasks :
           summarize_tasks[n].pc = "failed" /\ summarize_tasks[n].attempt = maximum_attempts
    /\ ap = <<>>

----------------------------------------------------------------------------
(* Properties of the replacement of the section and of the formatting pass *)

\* C29: with a section found by the scan and no other writer, the new text
\* stands at offset 1 when the delete is issued, the delete takes the range
\* [start + len(new_text), end + len(new_text)) of the scan's start and end,
\* and the characters it removes are those that stood in [start, end) when
\* the document was scanned.
C29_InsertThenShiftedDelete ==
    [][(wfpc = "write" /\ wr.pc = "delete" /\ hist.other_inserts = 0) =>
          /\ old_intelligence_exists(wr)
          /\ SubSeq(docText, insert_index, insert_index + Len(new_text) - 1) = new_text
          /\ wr'.pc = "format" =>
                /\ docText' = DeleteRange(docText,
                                  wr.intelligence_start_index + Len(new_text),
                                  wr.intelligence_end_index + Len(new_text))
                /\ hist'.deleted = hist.located
                /\ Len(hist'.deleted) =
                       wr.intelligence_end_index - wr.intelligence_start_index]_vars

\* the old section of a document that holds summary blocks has been deleted
C29_Witness ==
    /\ wfpc = "write"
    /\ wr.pc = "format"
    /\ old_intelligence_exists(wr)
    /\ hist.other_inserts = 0
    /\ hist.deleted # <<>>
    /\ hist.deleted = hist.located
    /\ Contains(S_HeaderOpen, docText)

S_Stars == <<"*", "*">>

----------------------------------------------------------------------------
(* Properties of the appends, of the read and of the run's results *)

\* C36: when append_summary_to_doc inserts and returns True, the document
\* afterwards is the block's text, one newline, and then the whole text the
\* document held before the insert, unchanged and in order.
C36_InsertKeepsPreviousText ==
    [][\A n \in DOMAIN ap :
          (wfpc = "append" /\ n \in DOMAIN ap' /\ ap[n].pc = "insert"
              /\ ap'[n].pc = "done" /\ ap'[n].result)
          => docText' = formatted_summary[call_ids[n]] \o <<"\n">> \o docText]_vars

\* a block has been inserted above another block
C36_Witness ==
    /\ \E n \in DOMAIN ap : ap[n].pc = "done" /\ ap[n].result
    /\ Cardinality(Occ(S_HeaderOpen, docText)) = 2
    /\ StartsWith(docText, S_HeaderOpen)

\* the summary blocks of a document by their delimiters: a block starts with
\* a header at the start of a paragraph and ends with the next paragraph that
\* is the trailer; as <<date, text>> in document order
BlockStarts(t) == {p \in Occ(S_HeaderOpen, t) : p = 1 \/ t[p - 1] = "\n"}

TrailerLines(t) ==
    {e \in Occ(S_Trailer, t) :
        e > 1 /\ t[e - 1] = "\n" /\ e + 3 <= Len(t) /\ t[e + 3] = "\n"}

CompleteBlockStarts(t) ==
    {p \in BlockStarts(t) : \E e \in TrailerLines(t) : e > p}

BlockAt(t, p) ==
    LET e == CHOOSE x \in TrailerLines(t) :
                 x > p /\ \A y \in TrailerLines(t) : y > p => x <= y
    IN  <<HeaderDate(t, p), SubSeq(t, p, e + 2)>>

\* the place a stable sort by date gives the block that starts at p
RankOf(t, p) ==
    Cardinality({q \in CompleteBlockStarts(t) :
        \/ /\ StrLeq(HeaderDate(t, q), HeaderDate(t, p))
           /\ HeaderDate(t, q) # HeaderDate(t, p)
        \/ HeaderDate(t, q) = HeaderDate(t, p) /\ q <= p})

ReadAsSpecified(t) ==
    LET starts == CompleteBlockStarts(t)
        result == sorted_summaries(t)
    IN  IF starts = {} THEN read_summaries_doc(t) = t
        ELSE /\ Len(result) = Cardinality(starts)
             /\ \A p \in starts : result[RankOf(t, p)] = BlockAt(t, p)
             /\ read_summaries_doc(t) = JoinLines([i \in 1..Len(result) |-> result[i][2]])
             /\ ~Contains(start_marker, read_summaries_doc(t))

\* C35: with at least one summary block in the document, read_summaries_doc
\* returns the document's blocks, each once, ordered by date with blocks of
\* one date in document order, and no text of the Intelligence Section; with
\* none it returns the document's text.  (The read requests nothing that
\* changes the document: ReadSummariesDoc leaves docText and docStyle.)
C35_ReadReturnsTheBlocks == ReadAsSpecified(docText)

\* C33: append_summary_to_doc returns False for a key only when the document
\* holds a summary block whose call id is that key; the block of another call
\* whose id starts with the key does not make it skip the insert.
C33_SkipsOnlyOnExactKey ==
    \A n \in DOMAIN ap :
        (ap[n].pc = "done" /\ ~ap[n].result)
            => Contains(S_CallId \o call_ids[n] \o NL, docText)
\* C32: when the appends of a run have been joined, new_summaries_added is the
\* number of summary blocks the append activities of this run inserted into
\* the document, an attempt that inserted and was then reported as failed or
\* timed out and retried included; so a run that returns "No Updates Needed"
\* has inserted nothing.
C32_CountEqualsInserts ==
    (wfpc = "read" \/ (wfpc = "returned" /\ status = "No Updates Needed"))
    => new_summaries_added = hist.mutations

\* C31: when a run has returned with a status other than "No calls found",
\* the document holds an Intelligence Section and the text the run read for
\* the synthesis held every summary block that is in the document, also when
\* the blocks were inserted by an earlier run that failed before its write.
C31_ReturnedRunLeftASection ==
    (wfpc = "returned" /\ status # "No calls found")
    => /\ LineCount(start_marker \o NL, docText) >= 1
       /\ \A id \in CallIdSet :
              Contains(CallIdLiteral(id) \o NL, docText)
              => Contains(CallIdLiteral(id) \o NL, summaries_text)

\* C38: when discovery returns no id the run ends at once with the status
\* "No calls found": it never reaches the document lookup, the summaries,
\* the appends, the read or the write, the document is as it was, and no
\* step follows the return.
C38_EmptyDiscoveryEndsRun ==
    /\ [](call_ids = <<>> =>
            /\ wfpc \in {"fetch_ids", "returned", "failed"}
            /\ wfpc = "returned" => status = "No calls found"
            /\ docText = NL /\ docStyle = <<"plain">>
            /\ summarize_tasks = <<>> /\ ap = <<>> /\ response = NoResponse
            /\ summaries_text = <<>> /\ wr = NoWrite /\ hist = NoHist)
    /\ [][status = "No calls found" => UNCHANGED vars]_vars

C38_Witness == wfpc = "returned" /\ status = "No calls found" /\ call_ids = <<>>

----------------------------------------------------------------------------
(* Properties of the scan of the windows *)

\* the number of zeros at the end of the log of the windows' matches
RECURSIVE TrailingEmpty(_)
TrailingEmpty(log) ==
    IF log = <<>> \/ log[Len(log)] # 0 THEN 0
    ELSE 1 + TrailingEmpty(SubSeq(log, 1, Len(log) - 1))

C34_ReturnedIdsDistinct ==
    \A i, j \in 1..Len(dresult.call_ids) :
        i # j => dresult.call_ids[i] # dresult.call_ids[j]

----------------------------------------------------------------------------
(* Properties of the name helpers *)

\* the string without its spaces and hyphens, in lower case
Normalized(t) == SelectSeq(PyLower(t), LAMBDA c : c \notin {" ", "-"})

\* the text behind the first "@" of t, up to the next "@"
DomainOf(t) ==
    LET ats == {i \in 1..Len(t) : t[i] = "@"}
        first == CHOOSE i \in ats : \A j \in ats : i <= j
        later == {i \in ats : i > first}
        next == IF later = {} THEN Len(t) + 1
                ELSE CHOOSE i \in later : \A j \in later : i <= j
    IN  SubSeq(t, first + 1, next - 1)

\* the domain without the first suffix of the list it ends with, if any
WithoutFirstSuffix(d) ==
    LET ends == {k \in 1..Len(tlds) : PyEndsWith(d, tlds[k])}
        first == CHOOSE k \in ends : \A j \in ends : k <= j
    IN  IF ends = {} THEN d ELSE SubSeq(d, 1, Len(d) - Len(tlds[first]))

====
